---- MODULE Spec2Model ----
(***************************************************************************)
(* A model of the SparkyFitness client of sparkyviz (app/lib/sparkyfitness *)
(* .ts, kept here as src/unnamed/part_002) and of the route loaders that   *)
(* call it.                                                                *)
(*                                                                         *)
(* One request is followed from its start to its return or throw.  The     *)
(* upstream API is the environment: every response is a nondeterministic   *)
(* choice.  The wall clock is part of the state, in whole hours since the  *)
(* epoch, together with the server's time zone: the code computes its      *)
(* calendar days with Date.setDate (local time) and Date.toISOString (UTC).*)
(* Nutrient values are fixed-point numbers in hundredths.                  *)
(*                                                                         *)
(* Beside the requests (Spec) the parts that compute on their arguments    *)
(* alone are followed over wider inputs: calculateStreakAndTotalDays       *)
(* (SpecStreak), the Credential Directory of a configuration string and    *)
(* validatePassword (SpecDirectory), fetchFoodEntriesForDate on any        *)
(* response body (SpecFood) and the dashboard's heatmap (SpecHeatmap).     *)
(***************************************************************************)
EXTENDS Integers, Sequences, FiniteSets, TLC

VARIABLES
    now,            \* the wall clock, hours since the epoch (UTC)
    tz,             \* the server's time zone
    ticks,          \* how often the clock has advanced
    apiKeysEnv,     \* process.env.SPARKYFITNESS_API_KEYS, a string
    configEntries,  \* the entries that string was written from
    API_KEYS_MAP,   \* the Credential Directory
    op,             \* the operation the request runs
    username,       \* its identity
    days,           \* fetchNutritionHistory's days
    includeMeals,   \* fetchNutritionHistory's includeMeals
    date,           \* fetchFoodEntriesForDate's date
    pc,             \* where the request is
    calls,          \* the upstream calls issued so far, in order
    startDate,      \* fetchNutritionHistory's startDate (an instant)
    endDate,        \* fetchNutritionHistory's endDate (an instant)
    dateStrings,    \* fetchNutritionHistory's dateStrings
    nutritionData,  \* the body of the daily-totals response
    datePromises,   \* per window index: "pending", or the settled {date, meals}
    settleOrder,    \* the window indexes in the order their fetches settled
    result,         \* the value fetchNutritionHistory returned
    todayGoals,     \* the value fetchGoals returned
    meals,          \* the value fetchFoodEntriesForDate returned
    profile,        \* the value fetchProfile returned
    outcome,        \* "none", "returned" or "threw"
    error,          \* which throw
    status,         \* the loader's HTTP status, 0 when no loader ran
    received,       \* the upstream responses received so far, in order
    foodEntries,    \* the body of the food-entries response of a single-day fetch
    password,       \* the candidate secret of a validation, <<>> when absent
    isValid,        \* the value validatePassword returned, <<>> when not called
    valid,          \* the field valid of the validate route's answer, <<>> when none
    heatmap,        \* the heatmap cells the dashboard rendered
    agg,            \* two fetchNutritionHistory calls in flight at once, each with its locals
    firstUsername,  \* the value getFirstUsername returned: <<>> for null
    cards,          \* the percentage cards the dashboard rendered
    cookieJar,      \* the browser's auth cookie of the identity, <<>> when none
    localStorage,   \* the browser's stored password of the identity, <<>> when none
    loaderData,     \* what the dashboard loader returned for the page shown
    flow,           \* where the dashboard page is
    candidate,      \* the password under validation, <<>> when none
    reloads         \* how often the page has reloaded itself

vars == <<now, tz, ticks, API_KEYS_MAP, op, username, days, includeMeals, date,
          pc, calls, startDate, endDate, dateStrings, nutritionData, datePromises,
          settleOrder, result, todayGoals, meals, profile, outcome, error,
          status, received, apiKeysEnv, configEntries, foodEntries, password, isValid,
          valid, heatmap,
          agg, firstUsername, cards, cookieJar, localStorage, loaderData, flow, candidate,
          reloads>>

-----------------------------------------------------------------------------
(* Bounds of the model.                                                    *)

\* the longest window a caller asks for by number
MaxDays == 3
\* the longest window whose per-day fetches are followed one by one
MaxMealDays == 2
\* the most records in one daily-totals response
MaxRecords == 2
\* how often the clock advances during one request
MaxTicks == 1

-----------------------------------------------------------------------------
(* The clock and the calendar: what Date does.                             *)

\* A time zone: the offsets from UTC in hours before and from the instant
\* `switch` on.  A zone without daylight saving has before = after.
ZoneUTC == [name |-> "UTC", before |-> 0, after |-> 0, switch |-> 0]
ZoneJakarta == [name |-> "Asia/Jakarta", before |-> 7, after |-> 7, switch |-> 0]
\* daylight saving ends on day 9 at 06:00 UTC (02:00 local)
ZoneNewYorkAutumn ==
    [name |-> "America/New_York (autumn)", before |-> -4, after |-> -5, switch |-> 222]
\* daylight saving starts on day 10 at 07:00 UTC (02:00 local)
ZoneNewYorkSpring ==
    [name |-> "America/New_York (spring)", before |-> -5, after |-> -4, switch |-> 247]

\* Where and when a request starts: the server's zone, and the instant, day
\* 10 at 00:00 UTC or at 23:00 UTC.
Settings ==
    { [tz |-> ZoneUTC, now |-> 240],
      [tz |-> ZoneUTC, now |-> 263],
      [tz |-> ZoneJakarta, now |-> 263],
      [tz |-> ZoneNewYorkAutumn, now |-> 240],
      [tz |-> ZoneNewYorkSpring, now |-> 263] }

Offset(z, t) == IF t < z.switch THEN z.before ELSE z.after

\* ECMAScript LocalTime(t)
LocalTime(z, t) == t + Offset(z, t)

\* ECMAScript UTC(t): the instant of a local time; a local time that occurs
\* twice is the earlier instant, one that is skipped is read with the offset
\* before the transition.
UTC(z, l) ==
    LET t1 == l - z.before
        t2 == l - z.after
    IN  IF t1 < z.switch THEN t1
        ELSE IF t2 >= z.switch THEN t2
        ELSE t1

\* d.setDate(d.getDate() + k): k days later at the same local time of day
SetDate(z, t, k) == UTC(z, LocalTime(z, t) + 24 * k)

\* d.toISOString().split('T')[0]: the calendar day in UTC, as a day number
ToISODate(t) == t \div 24

-----------------------------------------------------------------------------
(* The Credential Directory.                                               *)

Usernames == {"alice", "ghost"}

\* A string of the configuration is a sequence of tokens: a word (a run of
\* characters other than comma, colon and space) or one of those three
\* characters.
Comma == ","
Colon == ":"
Space == " "

\* What a configuration string is written from: per entry the parts between
\* its colons ("" for nothing at all) and the spaces before and after it.
Entry(parts, lead, trail) == [parts |-> parts, lead |-> lead, trail |-> trail]

Spaces(n) == [i \in 1..n |-> Space]

RECURSIVE JoinParts(_)
JoinParts(parts) ==
    (IF Head(parts) = "" THEN <<>> ELSE <<Head(parts)>>)
        \o (IF Len(parts) > 1 THEN <<Colon>> \o JoinParts(Tail(parts)) ELSE <<>>)

\* the string of one entry, and of a list of entries
EntryString(e) == Spaces(e.lead) \o JoinParts(e.parts) \o Spaces(e.trail)

RECURSIVE EnvString(_)
EnvString(es) ==
    IF es = <<>> THEN <<>>
    ELSE EntryString(Head(es))
            \o (IF Len(es) > 1 THEN <<Comma>> \o EnvString(Tail(es)) ELSE <<>>)

\* String.prototype.split(separator): the pieces between the separators, one
\* piece (the empty one) for the empty string
RECURSIVE SplitFrom(_, _, _)
SplitFrom(str, sep, piece) ==
    IF str = <<>> THEN <<piece>>
    ELSE IF Head(str) = sep
         THEN <<piece>> \o SplitFrom(Tail(str), sep, <<>>)
         ELSE SplitFrom(Tail(str), sep, Append(piece, Head(str)))

Split(str, sep) == SplitFrom(str, sep, <<>>)

\* String.prototype.trim
RECURSIVE TrimStart(_)
TrimStart(str) == IF str # <<>> /\ Head(str) = Space THEN TrimStart(Tail(str)) ELSE str

RECURSIVE TrimEnd(_)
TrimEnd(str) ==
    IF str # <<>> /\ str[Len(str)] = Space THEN TrimEnd(SubSeq(str, 1, Len(str) - 1)) ELSE str

Trim(str) == TrimEnd(TrimStart(str))

\* a piece as a value; the pieces between the colons of the strings followed
\* here are empty or one word
StringOf(piece) == IF piece = <<>> THEN "" ELSE piece[1]

\* parts.length === 3, and username && password && apiKey
Accepted(parts) ==
    /\ Len(parts) = 3
    /\ \A i \in 1..3 : StringOf(parts[i]) # ""

\* apiKeysEnv.split(',').forEach(entry => ... API_KEYS_MAP.set(username, ...))
RECURSIVE SetEntries(_, _)
SetEntries(pieces, map) ==
    IF pieces = <<>> THEN map
    ELSE LET parts == Split(Trim(Head(pieces)), Colon)
         IN  SetEntries(Tail(pieces),
                        IF Accepted(parts)
                        THEN (StringOf(parts[1]) :> [password |-> StringOf(parts[2]),
                                                     apiKey   |-> StringOf(parts[3])]) @@ map
                        ELSE map)

\* the Credential Directory of a configuration string; if (apiKeysEnv) skips
\* the empty string
ParseApiKeys(env) == IF env = <<>> THEN <<>> ELSE SetEntries(Split(env, Comma), <<>>)

\* SPARKYFITNESS_API_KEYS = "alice:secret:key-alice"
ConfiguredEntries == << Entry(<<"alice", "secret", "key-alice">>, 0, 0) >>
ConfiguredEnv == EnvString(ConfiguredEntries)
ConfiguredDirectory == ParseApiKeys(ConfiguredEnv)

HasEntry(map, u) == u \in DOMAIN map

\* a getApiKey that returns undefined instead of throwing
GetApiKeyNeverThrows(map, u) == FALSE

\* a getApiKey that hands every identity the key of one and the same entry
GetApiKeyOfOneEntry(map, u) ==
    IF HasEntry(map, u) THEN map[CHOOSE x \in DOMAIN map : TRUE].apiKey ELSE "undefined"

\* getApiKey(username): the key, or the throw (the key of an identity without
\* an entry is never read: the throw comes first)
GetApiKeyThrows(map, u) == ~HasEntry(map, u)
GetApiKey(map, u) == IF HasEntry(map, u) THEN map[u].apiKey ELSE "undefined"

\* a validatePassword that accepts any candidate of a configured identity
ValidatePasswordOfAnyCandidate(map, u, p) == HasEntry(map, u)

\* validatePassword(username, password)
ValidatePassword(map, u, p) == HasEntry(map, u) /\ map[u].password = p

-----------------------------------------------------------------------------
(* The upstream API: what it may answer.                                   *)

\* GET /auth/profiles: a success with an internal id, a success without one,
\* a non-success status
ProfileResponses ==
    { [ok |-> TRUE, id |-> "user-1"], [ok |-> TRUE, id |-> ""], [ok |-> FALSE, id |-> ""] }

\* GET /goals/by-date/{date}
GoalsResponses ==
    { [ok |-> TRUE,  goals |-> [calories |-> 200000, protein |-> 15000, carbs |-> 25000, fat |-> 7000]],
      [ok |-> FALSE, goals |-> [calories |-> 0, protein |-> 0, carbs |-> 0, fat |-> 0]] }

\* The daily totals the upstream holds (UpstreamNutritionDay), hundredths.
\* Day 20 is outside every window asked for.
UpstreamDays ==
    << [date |-> 8,  calories |-> 180055, protein |-> 9004,  carbs |-> 20015, fat |-> 6000],
       [date |-> 9,  calories |-> 0,      protein |-> 1249,  carbs |-> 0,     fat |-> 95],
       [date |-> 10, calories |-> 210449, protein |-> 12000, carbs |-> 23096, fat |-> 7105],
       [date |-> 20, calories |-> 77777,  protein |-> 7777,  carbs |-> 777,   fat |-> 77] >>

RECURSIVE PickDays(_, _)
PickDays(S, i) ==
    IF i > Len(UpstreamDays) THEN <<>>
    ELSE (IF i \in S THEN <<UpstreamDays[i]>> ELSE <<>>) \o PickDays(S, i + 1)

\* GET /reports/mini-nutrition-trends: a non-success status, or a sparse array
\* of at most MaxRecords of the upstream's records
TotalsResponses ==
    { [ok |-> FALSE, body |-> <<>>] } \cup
    { [ok |-> TRUE, body |-> PickDays(S, 1)] :
        S \in { T \in SUBSET (1..Len(UpstreamDays)) : Cardinality(T) <= MaxRecords } }

\* GET /food-entries/by-date/{date}: the statuses, 500 standing for every
\* non-success status other than 404
FoodStatuses == {200, 404, 500}

\* The food entries the upstream holds for a day (UpstreamFoodEntry); the
\* per-serving values carry the day, so that two days' entries differ.
FoodEntriesOf(d) ==
    IF d % 2 = 0
    THEN << [food_name |-> "oats", meal_type |-> "breakfast", quantity |-> 150, serving_size |-> 100,
             calories |-> 20000 + 100 * d, protein |-> 733, carbs |-> 3333, fat |-> 250] >>
    ELSE << [food_name |-> "rice", meal_type |-> "lunch", quantity |-> 1, serving_size |-> 3,
             calories |-> 13000 + 100 * d, protein |-> 270, carbs |-> 2800, fat |-> 30],
            [food_name |-> "tea", meal_type |-> "brunch", quantity |-> 2, serving_size |-> 1,
             calories |-> 5 + 100 * d, protein |-> 0, carbs |-> 15, fat |-> 0],
            [food_name |-> "egg", meal_type |-> "lunch", quantity |-> 2, serving_size |-> 1,
             calories |-> 7800, protein |-> 630, carbs |-> 56, fat |-> 530] >>

-----------------------------------------------------------------------------
(* The pure parts of the client.                                           *)

\* Math.floor in the place of Math.round
Round1Truncating(x) == (x \div 10) * 10

\* Math.round(x * 10) / 10 on a value in hundredths
Round1(x) == ((x + 5) \div 10) * 10

\* a scaling of the value already rounded to one decimal place
ScaleRound1OfRounded(v, q, s) == ((2 * Round1(v) * q + 10 * s) \div (20 * s)) * 10

\* Math.round(v * (q / s) * 10) / 10 on a value in hundredths, s > 0
ScaleRound1(v, q, s) == ((2 * v * q + 10 * s) \div (20 * s)) * 10

\* { breakfast: [], lunch: [], dinner: [], snack: [] }
EmptyMeals == [t \in {"breakfast", "lunch", "dinner", "snack"} |-> <<>>]

\* the FoodItem of an upstream entry
FoodItemOf(e) ==
    [name     |-> e.food_name,
     quantity |-> e.quantity,
     calories |-> ScaleRound1(e.calories, e.quantity, e.serving_size),
     protein  |-> ScaleRound1(e.protein, e.quantity, e.serving_size),
     carbs    |-> ScaleRound1(e.carbs, e.quantity, e.serving_size),
     fat      |-> ScaleRound1(e.fat, e.quantity, e.serving_size)]

\* a grouping that keeps the buckets it starts with and drops every entry of
\* another meal type
GroupEntriesKnownTypesOnly(entries, acc) ==
    [t \in DOMAIN acc |->
        LET own == SelectSeq(entries, LAMBDA e : e.meal_type = t)
        IN  acc[t] \o [i \in 1..Len(own) |-> FoodItemOf(own[i])]]

\* entries.forEach: meals[entry.meal_type] ??= []; meals[entry.meal_type].push(foodItem)
RECURSIVE GroupEntries(_, _)
GroupEntries(entries, acc) ==
    IF entries = <<>> THEN acc
    ELSE LET e == Head(entries)
             bucketed == IF e.meal_type \in DOMAIN acc THEN acc ELSE acc @@ (e.meal_type :> <<>>)
         IN  GroupEntries(Tail(entries), [bucketed EXCEPT ![e.meal_type] = Append(@, FoodItemOf(e))])

\* a fetchFoodEntriesForDate without the 404 case
FoodThrowsOnEveryNonOk(st) == st # 200

\* what fetchFoodEntriesForDate makes of a response: a throw, or the meals
FoodThrows(st) == st # 200 /\ st # 404
FoodMeals(st, d) == IF st = 404 THEN EmptyMeals ELSE GroupEntries(FoodEntriesOf(d), EmptyMeals)

\* .then(meals => ({date, meals})).catch(() => ({date, meals: empty}))
SettledOf(st, d) ==
    [date |-> d, meals |-> IF FoodThrows(st) THEN EmptyMeals ELSE FoodMeals(st, d)]

\* a Map built by forEach(x => map.set(x.date, x)) over a sequence: has, get
MapHas(xs, d) == \E i \in 1..Len(xs) : xs[i].date = d
MapGet(xs, d) ==
    LET last == CHOOSE i \in 1..Len(xs) :
                    /\ xs[i].date = d
                    /\ \A j \in 1..Len(xs) : xs[j].date = d => j <= i
    IN  xs[last]

\* startDate.setDate(startDate.getDate() - days + 1)
StartDateOf(z, t, n) == SetDate(z, t, 1 - n)

\* for (i = 0; i < days; i++) dateStrings.push(day of startDate + i)
DateStringsOf(z, start, n) == [i \in 1..n |-> ToISODate(SetDate(z, start, i - 1))]

\* results collected as the fetches settle, not in the order of the promises
PromiseAllInSettleOrder(promises, order) == [k \in 1..Len(order) |-> promises[order[k]]]

\* await Promise.all(datePromises): the settled values in the order of the
\* promises, whatever the order they settled in
PromiseAll(promises, order) == promises

\* a lookup that falls back to the last record received when the day has none
NutrientsOfOrLastRecord(data, d) ==
    LET dayData == IF MapHas(data, d) THEN MapGet(data, d) ELSE data[Len(data)]
    IN  IF data = <<>>
        THEN [calories |-> 0, protein |-> 0, carbs |-> 0, fat |-> 0]
        ELSE [calories |-> Round1(dayData.calories), protein |-> Round1(dayData.protein),
              carbs |-> Round1(dayData.carbs), fat |-> Round1(dayData.fat)]

\* the nutrients of one day of the result
NutrientsOf(data, d) ==
    IF MapHas(data, d)
    THEN LET dayData == MapGet(data, d)
         IN  [calories |-> Round1(dayData.calories), protein |-> Round1(dayData.protein),
              carbs |-> Round1(dayData.carbs), fat |-> Round1(dayData.fat)]
    ELSE [calories |-> 0, protein |-> 0, carbs |-> 0, fat |-> 0]

\* a lookup that ignores the date and takes the first result
MealsOfFirstResult(foodEntriesResults, d) ==
    IF foodEntriesResults = <<>> THEN EmptyMeals ELSE foodEntriesResults[1].meals

\* mealsMap.get(dateStr) || empty
MealsOf(foodEntriesResults, d) ==
    IF MapHas(foodEntriesResults, d) THEN MapGet(foodEntriesResults, d).meals ELSE EmptyMeals

\* a DailyData that carries empty meals when none were asked for
DailyDataAlwaysWithMeals(d, data, withMeals, foodEntriesResults) ==
    [date |-> d, nutrients |-> NutrientsOf(data, d),
     meals |-> IF withMeals THEN MealsOf(foodEntriesResults, d) ELSE EmptyMeals]

\* one DailyData; a record without the field meals is one whose meals is
\* undefined
DailyDataOf(d, data, withMeals, foodEntriesResults) ==
    IF withMeals
    THEN [date |-> d, nutrients |-> NutrientsOf(data, d), meals |-> MealsOf(foodEntriesResults, d)]
    ELSE [date |-> d, nutrients |-> NutrientsOf(data, d)]

\* for (i = 0; i < days; i++) result.push(...)
BuildResult(n, dates, data, withMeals, foodEntriesResults) ==
    [i \in 1..n |-> DailyDataOf(dates[i], data, withMeals, foodEntriesResults)]

\* a total that counts every record, tracked or not
TotalDaysOfAllRecords(history) == Len(history)

\* calculateStreakAndTotalDays: totalDays
TotalDaysOf(history) == Cardinality({i \in 1..Len(history) : history[i].nutrients.calories > 0})

\* calculateStreakAndTotalDays: the walk back from the current instant
RECURSIVE StreakWalk(_, _, _, _)
StreakWalk(z, history, currentDate, currentStreak) ==
    LET dateStr == ToISODate(currentDate)
    IN  IF ~MapHas(history, dateStr) \/ MapGet(history, dateStr).nutrients.calories = 0
        THEN currentStreak
        ELSE IF currentStreak + 1 > Len(history)
             THEN currentStreak + 1
             ELSE StreakWalk(z, history, SetDate(z, currentDate, -1), currentStreak + 1)

CalculateStreakAndTotalDays(z, t, history) ==
    [currentStreak |-> StreakWalk(z, history, t, 0), totalDays |-> TotalDaysOf(history)]

-----------------------------------------------------------------------------
(* The request: its inputs.                                                *)

Operations ==
    {"fetchGoals", "fetchProfile", "fetchNutritionHistory", "fetchFoodEntriesForDate",
     "historyLoader", "mealsLoader"}

Loaders == {"historyLoader", "mealsLoader"}

\* the days a caller passes
DaysChoices == (0 - 1)..MaxDays

\* the ?days= of the history route: <<>> when the parameter is absent
DaysQueries == {<<>>} \cup { <<n>> : n \in DaysChoices }

\* parseInt(url.searchParams.get("days") || "90", 10)
ParseDays(q) == IF q = <<>> THEN 90 ELSE q[1]

\* the optional date of fetchGoals (<<>> when omitted) and the date of
\* fetchFoodEntriesForDate
DateChoices == {9, 10}
OptionalDates == {<<>>} \cup { <<d>> : d \in DateChoices }

\* fetchProfile asks for fetchNutritionHistory(username, 90); the model follows
\* a window of at most MaxMealDays days of it
ProfileHistoryDays == IF 90 > MaxMealDays THEN MaxMealDays ELSE 90

\* one upstream call: the endpoint, the API key it carries, its parameters
Call(endpoint, key, userId, from, to) ==
    [endpoint |-> endpoint, key |-> key, userId |-> userId, from |-> from, to |-> to]

ProfilesCall(key) == Call("/auth/profiles", key, "", 0, 0)
GoalsCall(key, d) == Call("/goals/by-date", key, "", d, d)
TrendsCall(key, id, from, to) == Call("/reports/mini-nutrition-trends", key, id, from, to)
FoodCall(key, d) == Call("/food-entries/by-date", key, "", d, d)

NoGoals == [calories |-> 0, protein |-> 0, carbs |-> 0, fat |-> 0]
NoProfile == [goals |-> NoGoals, currentStreak |-> 0, totalDays |-> 0]

\* a response as the request saw it: the await it answered, response.ok, the
\* profile's id, the status of a food-entries response, the window index of a
\* per-day fetch
Response(step, ok, id, code, index) ==
    [step |-> step, ok |-> ok, id |-> id, code |-> code, index |-> index]

Pending(d) == [state |-> "pending", date |-> d, meals |-> EmptyMeals]
Settled(v) == [state |-> "settled", date |-> v.date, meals |-> v.meals]

\* the two calls of fetchNutritionHistory that run at once
Aggregations == 1..2

\* the locals of a fetchNutritionHistory that has not started
IdleAggregation ==
    [pc |-> "idle", username |-> "", days |-> 0, includeMeals |-> FALSE, calls |-> <<>>,
     profileOk |-> <<>>, totalsOk |-> <<>>, foodStatus |-> <<>>, startDate |-> 0,
     nutritionData |-> <<>>, dateStrings |-> <<>>, datePromises |-> <<>>, result |-> <<>>,
     outcome |-> "none", overlapped |-> FALSE]

\* the loader data of a page that was never loaded
NoLoaderData ==
    [authenticated |-> FALSE, profile |-> <<>>, history |-> <<>>, authFailed |-> FALSE,
     apiRequests |-> <<>>]

\* no concurrent call, no card, no browser session
NoPage ==
    /\ agg = [p \in Aggregations |-> IdleAggregation]
    /\ firstUsername = <<>>
    /\ cards = <<>>
    /\ cookieJar = <<>>
    /\ localStorage = <<>>
    /\ loaderData = NoLoaderData
    /\ flow = "none"
    /\ candidate = <<>>
    /\ reloads = 0

Init ==
    /\ \E s \in Settings : now = s.now /\ tz = s.tz
    /\ ticks = 0
    /\ API_KEYS_MAP = ConfiguredDirectory
    /\ op = "none"
    /\ username = ""
    /\ days = 0
    /\ includeMeals = FALSE
    /\ date = <<>>
    /\ pc = "idle"
    /\ calls = <<>>
    /\ startDate = 0
    /\ endDate = 0
    /\ dateStrings = <<>>
    /\ nutritionData = <<>>
    /\ datePromises = <<>>
    /\ settleOrder = <<>>
    /\ result = <<>>
    /\ todayGoals = NoGoals
    /\ meals = EmptyMeals
    /\ profile = NoProfile
    /\ outcome = "none"
    /\ error = ""
    /\ status = 0
    /\ received = <<>>
    /\ apiKeysEnv = ConfiguredEnv
    /\ configEntries = ConfiguredEntries
    /\ foodEntries = <<>>
    /\ password = <<>>
    /\ isValid = <<>>
    /\ valid = <<>>
    /\ heatmap = <<>>
    /\ NoPage

concurrentVars == <<agg, firstUsername>>
loginVars == <<cookieJar, localStorage, loaderData, flow, candidate, reloads>>
pageVars == <<concurrentVars, cards, loginVars>>
envVars == <<tz, API_KEYS_MAP, apiKeysEnv, configEntries>>
validateVars == <<password, isValid, valid>>
clockVars == <<now, ticks>>
histVars == <<startDate, endDate, dateStrings, nutritionData, datePromises, settleOrder>>
valueVars == <<result, todayGoals, meals, profile>>

-----------------------------------------------------------------------------
(* How a request ends.                                                     *)

\* a throw: the caller sees the rejection; a loader's catch answers 500
Throw(o, kind) ==
    /\ pc' = "done"
    /\ outcome' = "threw"
    /\ error' = kind
    /\ status' = IF o \in Loaders THEN 500 ELSE 0

\* a return: a loader answers Response.json(value), status 200
Return(o) ==
    /\ pc' = "done"
    /\ outcome' = "returned"
    /\ error' = ""
    /\ status' = IF o \in Loaders THEN 200 ELSE 0

-----------------------------------------------------------------------------
(* fetchGoals.                                                             *)

\* fetchGoals up to its fetch: getApiKey, the target date, the call
EnterGoals(o, u, dt) ==
    IF GetApiKeyThrows(API_KEYS_MAP, u)
    THEN /\ Throw(o, "getApiKey")
         /\ calls' = calls
    ELSE /\ calls' = Append(calls, GoalsCall(GetApiKey(API_KEYS_MAP, u),
                                             IF dt = <<>> THEN ToISODate(now) ELSE dt[1]))
         /\ pc' = "goals"
         /\ UNCHANGED <<outcome, error, status>>

StartFetchGoals(u, dt) ==
    /\ pc = "idle"
    /\ op' = "fetchGoals"
    /\ username' = u
    /\ date' = dt
    /\ EnterGoals("fetchGoals", u, dt)
    /\ UNCHANGED <<envVars, pageVars, validateVars, heatmap, foodEntries, clockVars, days, includeMeals, histVars, valueVars, received>>

-----------------------------------------------------------------------------
(* fetchNutritionHistory.                                                  *)

\* fetchNutritionHistory up to its first fetch: getApiKey, the profile call
EnterHistory(o, u, n, m) ==
    /\ days' = n
    /\ includeMeals' = m
    /\ IF GetApiKeyThrows(API_KEYS_MAP, u)
       THEN /\ Throw(o, "getApiKey")
            /\ calls' = calls
       ELSE /\ calls' = Append(calls, ProfilesCall(GetApiKey(API_KEYS_MAP, u)))
            /\ pc' = "hist_profile"
            /\ UNCHANGED <<outcome, error, status>>

StartFetchNutritionHistory(u, n, m) ==
    /\ pc = "idle"
    /\ m => n <= MaxMealDays
    /\ op' = "fetchNutritionHistory"
    /\ username' = u
    /\ EnterHistory("fetchNutritionHistory", u, n, m)
    /\ UNCHANGED <<envVars, pageVars, validateVars, heatmap, foodEntries, clockVars, date, histVars, valueVars, received>>

\* the loader of /api/:username/nutrition/history; username is the route's
\* parameter and never empty, and a ?days= that is no number is left out
StartHistoryLoader(u, q) ==
    /\ pc = "idle"
    /\ op' = "historyLoader"
    /\ username' = u
    /\ EnterHistory("historyLoader", u, ParseDays(q), FALSE)
    /\ UNCHANGED <<envVars, pageVars, validateVars, heatmap, foodEntries, clockVars, date, histVars, valueVars, received>>

\* the goals response: fetchGoals returns or throws; fetchProfile goes on to
\* fetchNutritionHistory(username, 90), includeMeals left at its default
GoalsResponse(r) ==
    /\ pc = "goals"
    /\ IF ~r.ok
       THEN /\ Throw(op, "goals")
            /\ UNCHANGED <<todayGoals, calls, days, includeMeals>>
       ELSE /\ todayGoals' = r.goals
            /\ IF op = "fetchGoals"
               THEN /\ Return(op)
                    /\ UNCHANGED <<calls, days, includeMeals>>
               ELSE EnterHistory(op, username, ProfileHistoryDays, TRUE)
    /\ received' = Append(received, Response("goals", r.ok, "", 0, 0))
    /\ UNCHANGED <<envVars, pageVars, validateVars, heatmap, foodEntries, clockVars, op, username, date, histVars, result, meals, profile>>

\* if (!profileResponse.ok) throw
ProfileNotOk(r) == ~r.ok

\* a fetchNutritionHistory that does not look at the id
NoUserIdUnchecked(r) == FALSE

\* if (!userId) throw
NoUserId(r) == r.id = ""

\* a fetchNutritionHistory that takes every daily-totals response as a success
TotalsNotOkIgnored(r) == FALSE

\* if (!nutritionResponse.ok) throw
TotalsNotOk(r) == ~r.ok

\* step 1 and 2: the profile response, the userId, the date range, the
\* daily-totals call
HistProfileResponse(r) ==
    /\ pc = "hist_profile"
    /\ received' = Append(received, Response("hist_profile", r.ok, r.id, 0, 0))
    /\ IF ProfileNotOk(r)
       THEN /\ Throw(op, "profile")
            /\ UNCHANGED <<startDate, endDate, calls>>
       ELSE IF NoUserId(r)
       THEN /\ Throw(op, "userId")
            /\ UNCHANGED <<startDate, endDate, calls>>
       ELSE /\ endDate' = now
            /\ startDate' = StartDateOf(tz, now, days)
            /\ calls' = Append(calls, TrendsCall(GetApiKey(API_KEYS_MAP, username), r.id,
                                                 ToISODate(startDate'), ToISODate(endDate')))
            /\ pc' = "hist_totals"
            /\ UNCHANGED <<outcome, error, status>>
    /\ UNCHANGED <<envVars, pageVars, validateVars, heatmap, foodEntries, clockVars, op, username, days, includeMeals, date,
                   dateStrings, nutritionData, datePromises, settleOrder, valueVars>>

\* dateStrings.forEach(dateStr => datePromises.push(fetchFoodEntriesForDate(...)
\* .then(...).catch(...))): per date getApiKey and the call; a throw of
\* getApiKey is a rejection the catch turns into empty meals
DispatchedPromises(map, u, dates) ==
    [i \in 1..Len(dates) |->
        IF GetApiKeyThrows(map, u)
        THEN Settled([date |-> dates[i], meals |-> EmptyMeals])
        ELSE Pending(dates[i])]

\* a fan-out that issues the first date's fetch only
DispatchedCallsFirstOnly(map, u, dates) ==
    IF GetApiKeyThrows(map, u) \/ dates = <<>> THEN <<>>
    ELSE << FoodCall(GetApiKey(map, u), dates[1]) >>

DispatchedCalls(map, u, dates) ==
    IF GetApiKeyThrows(map, u) THEN <<>>
    ELSE [i \in 1..Len(dates) |-> FoodCall(GetApiKey(map, u), dates[i])]

\* fetchNutritionHistory returns; in fetchProfile the streak and the total
\* are computed from it and the Profile is returned
ReturnHistory(res) ==
    /\ result' = res
    /\ Return(op)
    /\ profile' = IF op = "fetchProfile"
                  THEN LET m == CalculateStreakAndTotalDays(tz, now, res)
                       IN  [goals |-> todayGoals, currentStreak |-> m.currentStreak,
                            totalDays |-> m.totalDays]
                  ELSE profile

\* step 3 to 5: the daily-totals response, the window's dates, and either
\* the fan-out of the per-day fetches or, without meals, the result
HistTotalsResponse(r) ==
    /\ pc = "hist_totals"
    /\ received' = Append(received, Response("hist_totals", r.ok, "", 0, 0))
    /\ IF TotalsNotOk(r)
       THEN /\ Throw(op, "totals")
            /\ UNCHANGED <<nutritionData, dateStrings, datePromises, calls, result, profile>>
       ELSE /\ nutritionData' = r.body
            /\ dateStrings' = DateStringsOf(tz, startDate, days)
            /\ IF includeMeals
               THEN /\ datePromises' = DispatchedPromises(API_KEYS_MAP, username, dateStrings')
                    /\ calls' = calls \o DispatchedCalls(API_KEYS_MAP, username, dateStrings')
                    /\ pc' = "hist_meals"
                    /\ UNCHANGED <<outcome, error, status, result, profile>>
               ELSE /\ ReturnHistory(BuildResult(days, dateStrings', r.body, FALSE, <<>>))
                    /\ UNCHANGED <<datePromises, calls>>
    /\ UNCHANGED <<envVars, pageVars, validateVars, heatmap, foodEntries, clockVars, op, username, days, includeMeals, date,
                   startDate, endDate, settleOrder, todayGoals, meals>>

\* one per-day fetch settles, in any order: its response, through
\* fetchFoodEntriesForDate, then and catch
FoodEntriesSettle(i, st) ==
    /\ pc = "hist_meals"
    /\ i \in DOMAIN datePromises
    /\ datePromises[i].state = "pending"
    /\ datePromises' = [datePromises EXCEPT ![i] = Settled(SettledOf(st, dateStrings[i]))]
    /\ settleOrder' = Append(settleOrder, i)
    /\ received' = Append(received, Response("hist_food", st = 200, "", st, i))
    /\ UNCHANGED <<envVars, pageVars, validateVars, heatmap, foodEntries, clockVars, op, username, days, includeMeals, date, pc, calls,
                   startDate, endDate, dateStrings, nutritionData, valueVars,
                   outcome, error, status>>

\* await Promise.all(datePromises) resumes: mealsMap and the result
HistJoin ==
    /\ pc = "hist_meals"
    /\ \A i \in DOMAIN datePromises : datePromises[i].state = "settled"
    /\ ReturnHistory(BuildResult(days, dateStrings, nutritionData, TRUE,
                                 PromiseAll(datePromises, settleOrder)))
    /\ UNCHANGED <<envVars, pageVars, validateVars, heatmap, foodEntries, clockVars, op, username, days, includeMeals, date, calls,
                   histVars, todayGoals, meals, received>>

-----------------------------------------------------------------------------
(* fetchProfile.                                                           *)

StartFetchProfile(u) ==
    /\ pc = "idle"
    /\ op' = "fetchProfile"
    /\ username' = u
    /\ IF GetApiKeyThrows(API_KEYS_MAP, u)
       THEN /\ Throw("fetchProfile", "getApiKey")
            /\ calls' = calls
       ELSE /\ calls' = Append(calls, ProfilesCall(GetApiKey(API_KEYS_MAP, u)))
            /\ pc' = "prof_profile"
            /\ UNCHANGED <<outcome, error, status>>
    /\ UNCHANGED <<envVars, pageVars, validateVars, heatmap, foodEntries, clockVars, days, includeMeals, date, histVars, valueVars, received>>

\* the profile response of fetchProfile, then fetchGoals(username)
ProfProfileResponse(r) ==
    /\ pc = "prof_profile"
    /\ received' = Append(received, Response("prof_profile", r.ok, r.id, 0, 0))
    /\ IF ~r.ok
       THEN /\ Throw(op, "profile")
            /\ calls' = calls
       ELSE EnterGoals(op, username, <<>>)
    /\ UNCHANGED <<envVars, pageVars, validateVars, heatmap, foodEntries, clockVars, op, username, days, includeMeals, date, histVars,
                   valueVars>>

-----------------------------------------------------------------------------
(* fetchFoodEntriesForDate, called for one day.                            *)

EnterFood(o, u, d) ==
    IF GetApiKeyThrows(API_KEYS_MAP, u)
    THEN /\ Throw(o, "getApiKey")
         /\ calls' = calls
    ELSE /\ calls' = Append(calls, FoodCall(GetApiKey(API_KEYS_MAP, u), d))
         /\ pc' = "food"
         /\ UNCHANGED <<outcome, error, status>>

StartFetchFoodEntriesForDate(u, d) ==
    /\ pc = "idle"
    /\ op' = "fetchFoodEntriesForDate"
    /\ username' = u
    /\ date' = <<d>>
    /\ EnterFood("fetchFoodEntriesForDate", u, d)
    /\ UNCHANGED <<envVars, pageVars, validateVars, heatmap, foodEntries, clockVars, days, includeMeals, histVars, valueVars, received>>

\* the loader of /api/:username/meals/:date
StartMealsLoader(u, d) ==
    /\ pc = "idle"
    /\ op' = "mealsLoader"
    /\ username' = u
    /\ date' = <<d>>
    /\ EnterFood("mealsLoader", u, d)
    /\ UNCHANGED <<envVars, pageVars, validateVars, heatmap, foodEntries, clockVars, days, includeMeals, histVars, valueVars, received>>

FoodResponse(st) ==
    /\ pc = "food"
    /\ received' = Append(received, Response("food", st = 200, "", st, 0))
    /\ IF FoodThrows(st)
       THEN /\ Throw(op, "food")
            /\ meals' = meals
       ELSE /\ meals' = FoodMeals(st, date[1])
            /\ Return(op)
    /\ foodEntries' = IF st = 200 THEN FoodEntriesOf(date[1]) ELSE <<>>
    /\ UNCHANGED <<envVars, pageVars, validateVars, heatmap, clockVars, op, username, days, includeMeals,
                   date, calls, histVars, result, todayGoals, profile>>

-----------------------------------------------------------------------------
(* The clock advances while a request waits.  The clock is read for the     *)
(* goals' date (before the wait for the goals), for the window (after the   *)
(* wait for the history's profile) and for the streak (after the join): an  *)
(* advance during the wait for the history's profile stands for every       *)
(* advance before the window is computed, one during the wait for the daily *)
(* totals for every advance after it.                                       *)

Tick ==
    /\ pc \in {"hist_profile", "hist_totals"}
    /\ ticks < MaxTicks
    /\ now' = now + 1
    /\ ticks' = ticks + 1
    /\ UNCHANGED <<envVars, pageVars, validateVars, heatmap, foodEntries, op, username, days, includeMeals, date, pc, calls, histVars,
                   valueVars, outcome, error, status, received>>

-----------------------------------------------------------------------------
(* validatePassword and the loader of /api/:username/validate.              *)

\* the candidate secrets, and the ?password= of the route: <<>> when absent
Candidates == {"secret", "hunter2", ""}
PasswordQueries == {<<>>} \cup { <<p>> : p \in Candidates }

CallValidatePassword(u, p) ==
    /\ pc = "idle"
    /\ op' = "validatePassword"
    /\ username' = u
    /\ password' = <<p>>
    /\ isValid' = <<ValidatePassword(API_KEYS_MAP, u, p)>>
    /\ Return("validatePassword")
    /\ UNCHANGED <<envVars, pageVars, valid, heatmap, foodEntries, clockVars, days, includeMeals, date,
                   calls, histVars, valueVars, received>>

\* the loader: if (!password) answers {valid: false} with 400, else
\* {valid: validatePassword(username, password)}
ValidateLoader(u, q) ==
    /\ pc = "idle"
    /\ op' = "validateLoader"
    /\ username' = u
    /\ password' = q
    /\ pc' = "done"
    /\ outcome' = "returned"
    /\ error' = ""
    /\ IF q = <<>> \/ q[1] = ""
       THEN /\ isValid' = <<>>
            /\ valid' = <<FALSE>>
            /\ status' = 400
       ELSE /\ isValid' = <<ValidatePassword(API_KEYS_MAP, u, q[1])>>
            /\ valid' = <<ValidatePassword(API_KEYS_MAP, u, q[1])>>
            /\ status' = 200
    /\ UNCHANGED <<envVars, pageVars, heatmap, foodEntries, clockVars, days, includeMeals, date,
                   calls, histVars, valueVars, received>>

Next ==
    \/ \E u \in Usernames, dt \in OptionalDates : StartFetchGoals(u, dt)
    \/ \E u \in Usernames : StartFetchProfile(u)
    \/ \E u \in Usernames, n \in DaysChoices, m \in BOOLEAN : StartFetchNutritionHistory(u, n, m)
    \/ \E u \in Usernames, q \in DaysQueries : StartHistoryLoader(u, q)
    \/ \E u \in Usernames, d \in DateChoices : StartFetchFoodEntriesForDate(u, d)
    \/ \E u \in Usernames, d \in DateChoices : StartMealsLoader(u, d)
    \/ \E r \in ProfileResponses : ProfProfileResponse(r)
    \/ \E r \in GoalsResponses : GoalsResponse(r)
    \/ \E r \in ProfileResponses : HistProfileResponse(r)
    \/ \E r \in TotalsResponses : HistTotalsResponse(r)
    \/ \E i \in 1..(MaxDays + 1), st \in FoodStatuses : FoodEntriesSettle(i, st)
    \/ HistJoin
    \/ \E st \in FoodStatuses : FoodResponse(st)
    \/ \E u \in Usernames, p \in Candidates : CallValidatePassword(u, p)
    \/ \E u \in Usernames, q \in PasswordQueries : ValidateLoader(u, q)
    \/ Tick

Spec == Init /\ [][Next]_vars

-----------------------------------------------------------------------------
(* calculateStreakAndTotalDays on its own: applied to any day sequence, at  *)
(* any of the instants and zones above.                                     *)

\* the longest day sequence handed to calculateStreakAndTotalDays
MaxHistory == 3

\* the dates and the calories of the records of such a sequence
HistoryDates == 8..11
HistoryCalories == {0, 150000}

\* a DailyData without meals
DailyDataWith(d, c) ==
    [date |-> d, nutrients |-> [calories |-> c, protein |-> 0, carbs |-> 0, fat |-> 0]]

\* the day sequences: any records in any order, dates repeated or missing
Histories ==
    UNION { [1..n -> { DailyDataWith(d, c) : d \in HistoryDates, c \in HistoryCalories }] :
            n \in 0..MaxHistory }

StreakInit ==
    /\ \E s \in Settings : now = s.now /\ tz = s.tz
    /\ ticks = 0
    /\ API_KEYS_MAP = ConfiguredDirectory
    /\ op = "none"
    /\ username = ""
    /\ days = 0
    /\ includeMeals = FALSE
    /\ date = <<>>
    /\ pc = "idle"
    /\ calls = <<>>
    /\ startDate = 0
    /\ endDate = 0
    /\ dateStrings = <<>>
    /\ nutritionData = <<>>
    /\ datePromises = <<>>
    /\ settleOrder = <<>>
    /\ result \in Histories
    /\ todayGoals = NoGoals
    /\ meals = EmptyMeals
    /\ profile = NoProfile
    /\ outcome = "none"
    /\ error = ""
    /\ status = 0
    /\ received = <<>>
    /\ apiKeysEnv = ConfiguredEnv
    /\ configEntries = ConfiguredEntries
    /\ foodEntries = <<>>
    /\ password = <<>>
    /\ isValid = <<>>
    /\ valid = <<>>
    /\ heatmap = <<>>
    /\ NoPage

\* calculateStreakAndTotalDays(nutritionHistory), the sequence held in result
\* and the value kept in profile
CallCalculateStreakAndTotalDays ==
    /\ pc = "idle"
    /\ op' = "calculateStreakAndTotalDays"
    /\ LET m == CalculateStreakAndTotalDays(tz, now, result)
       IN  profile' = [goals |-> NoGoals, currentStreak |-> m.currentStreak,
                       totalDays |-> m.totalDays]
    /\ pc' = "done"
    /\ outcome' = "returned"
    /\ UNCHANGED <<envVars, pageVars, validateVars, heatmap, foodEntries, clockVars, username, days, includeMeals, date, calls, histVars,
                   result, todayGoals, meals, error, status, received>>

StreakNext == CallCalculateStreakAndTotalDays

SpecStreak == StreakInit /\ [][StreakNext]_vars

-----------------------------------------------------------------------------
(* The Credential Directory of any configuration string, and validations    *)
(* against it.                                                              *)

\* the most parts of one entry, and the most spaces on each side of it
MaxParts == 4
MaxSpaces == 1

\* what stands between two colons: nothing, or a word
PartChoices == {"", "alice", "secret", "key-alice"}

\* the entries: 1 to MaxParts parts, spaces before and after
Entries ==
    { Entry(parts, lead, trail) :
        parts \in UNION { [1..n -> PartChoices] : n \in 1..MaxParts },
        lead \in 0..MaxSpaces, trail \in 0..MaxSpaces }

\* a second entry beside the first, of the same identity as some of them
OtherEntry == Entry(<<"alice", "hunter2", "key-2">>, 0, 0)

\* the configurations: none, one entry, or one entry before or after OtherEntry
EntryLists ==
    {<<>>} \cup { <<e>> : e \in Entries } \cup { <<e, OtherEntry>> : e \in Entries }
           \cup { <<OtherEntry, e>> : e \in Entries }

\* no request has started
NoRequest ==
    /\ ticks = 0
    /\ op = "none"
    /\ username = ""
    /\ days = 0
    /\ includeMeals = FALSE
    /\ date = <<>>
    /\ pc = "idle"
    /\ calls = <<>>
    /\ startDate = 0
    /\ endDate = 0
    /\ dateStrings = <<>>
    /\ nutritionData = <<>>
    /\ datePromises = <<>>
    /\ settleOrder = <<>>
    /\ todayGoals = NoGoals
    /\ meals = EmptyMeals
    /\ outcome = "none"
    /\ error = ""
    /\ status = 0
    /\ received = <<>>
    /\ foodEntries = <<>>
    /\ password = <<>>
    /\ isValid = <<>>
    /\ valid = <<>>
    /\ heatmap = <<>>
    /\ NoPage

DirectoryInit ==
    /\ now = 240
    /\ tz = ZoneUTC
    /\ \E es \in EntryLists :
        /\ configEntries = es
        /\ apiKeysEnv = EnvString(es)
    /\ API_KEYS_MAP = ParseApiKeys(apiKeysEnv)
    /\ result = <<>>
    /\ profile = NoProfile
    /\ NoRequest

DirectoryNext ==
    \/ \E u \in Usernames, p \in Candidates : CallValidatePassword(u, p)
    \/ \E u \in Usernames, q \in PasswordQueries : ValidateLoader(u, q)

SpecDirectory == DirectoryInit /\ [][DirectoryNext]_vars

-----------------------------------------------------------------------------
(* The dashboard's heatmap: one row of cells, the calories of each day of   *)
(* the history against the profile's calories goal.                         *)

\* A JavaScript number that is a quotient is kept as the fraction num/den of
\* integers, den >= 0: den = 0 is NaN when num = 0 and Infinity when num > 0.
Fraction(num, den) == [num |-> num, den |-> den]

IsNaN(f) == f.den = 0 /\ f.num = 0

\* f === 0, f < k and f <= k; every comparison with NaN is false, and
\* Infinity is below no number
IsZero(f) == f.den > 0 /\ f.num = 0
Less(f, k) == f.den > 0 /\ f.num < k * f.den
LessEq(f, k) == f.den > 0 /\ f.num <= k * f.den

\* getPercentage(value, goal) = (value / goal) * 100
GetPercentage(value, goal) == Fraction(100 * value, goal)

\* a distance that is not scaled down above 100
AdjustedDistanceUndampened(percentage) ==
    IF Less(percentage, 100)
    THEN Fraction(100 * percentage.den - percentage.num, percentage.den)
    ELSE Fraction(percentage.num - 100 * percentage.den, percentage.den)

\* adjustedDistance: 100 - percentage below 100, (percentage - 100) * 0.5
\* otherwise
AdjustedDistance(percentage) ==
    IF Less(percentage, 100)
    THEN Fraction(100 * percentage.den - percentage.num, percentage.den)
    ELSE Fraction(percentage.num - 100 * percentage.den, 2 * percentage.den)

\* the colour of a zone: the zone the branch is commented with, and whether
\* the components of the rgba(...) string are numbers (they are NaN when the
\* percentage is)
Color(zone, percentage) == [zone |-> zone, numeric |-> ~IsNaN(percentage)]

\* a getHeatmapColor whose last two zones are exchanged
GetHeatmapColorRedBeforeOrange(percentage) ==
    IF IsZero(percentage) THEN Color("NoData", percentage)
    ELSE LET adjustedDistance == AdjustedDistance(percentage)
         IN  IF LessEq(adjustedDistance, 15) THEN Color("Green", percentage)
             ELSE IF LessEq(adjustedDistance, 30) THEN Color("Yellow", percentage)
             ELSE IF LessEq(adjustedDistance, 50) THEN Color("Red", percentage)
             ELSE Color("Orange", percentage)

\* getHeatmapColor(percentage)
GetHeatmapColor(percentage) ==
    IF IsZero(percentage) THEN Color("NoData", percentage)
    ELSE LET adjustedDistance == AdjustedDistance(percentage)
         IN  IF LessEq(adjustedDistance, 15) THEN Color("Green", percentage)
             ELSE IF LessEq(adjustedDistance, 30) THEN Color("Yellow", percentage)
             ELSE IF LessEq(adjustedDistance, 50) THEN Color("Orange", percentage)
             ELSE Color("Red", percentage)

\* trimmedData: the history from its first day with data on, all of it when
\* no day has data
HasData(day) ==
    \/ day.nutrients.calories > 0
    \/ day.nutrients.protein > 0
    \/ day.nutrients.carbs > 0
    \/ day.nutrients.fat > 0

TrimmedData(heatmapData) ==
    LET withData == { i \in 1..Len(heatmapData) : HasData(heatmapData[i]) }
        startIndex == IF withData = {} THEN 1
                      ELSE CHOOSE i \in withData : \A j \in withData : i <= j
    IN  SubSeq(heatmapData, startIndex, Len(heatmapData))

\* one cell of the calories row
Cell(day, goals) ==
    LET value == day.nutrients.calories
        percentage == GetPercentage(value, goals.calories)
    IN  [date |-> day.date, value |-> value, goal |-> goals.calories,
         percentage |-> percentage, backgroundColor |-> GetHeatmapColor(percentage)]

\* the calories of the days shown and the calories goal, in hundredths: on
\* and beside the zone boundaries of a goal of 1000, and far from them
HeatmapValues ==
    {0, 10, 250000} \cup
    { b + e : b \in {50000, 70000, 85000, 100000, 130000, 160000, 200000}, e \in {0 - 10, 0, 10} }

HeatmapGoals == {0, 30000, 100000}

\* a day: its calories, and protein or none (a day with neither has no data)
HeatmapDays(d) ==
    { [date |-> d, nutrients |-> [calories |-> c, protein |-> p, carbs |-> 0, fat |-> 0]] :
        c \in HeatmapValues, p \in {0, 5000} }

HeatmapInit ==
    /\ now = 240
    /\ tz = ZoneUTC
    /\ apiKeysEnv = ConfiguredEnv
    /\ configEntries = ConfiguredEntries
    /\ API_KEYS_MAP = ConfiguredDirectory
    /\ \E a \in HeatmapDays(9), b \in HeatmapDays(10) : result = <<a, b>>
    /\ \E g \in HeatmapGoals :
          profile = [goals |-> [NoGoals EXCEPT !.calories = g], currentStreak |-> 0,
                     totalDays |-> 0]
    /\ NoRequest

\* the dashboard renders the row from the loader's history and profile
RenderHeatmap ==
    /\ pc = "idle"
    /\ op' = "Dashboard"
    /\ heatmap' = [i \in 1..Len(TrimmedData(result)) |-> Cell(TrimmedData(result)[i], profile.goals)]
    /\ pc' = "done"
    /\ outcome' = "returned"
    /\ UNCHANGED <<envVars, pageVars, validateVars, foodEntries, clockVars, username, days, includeMeals,
                   date, calls, histVars, valueVars, error, status, received>>

\* getPercentageColor(percentage): the background of the heatmap, and a text
\* colour by the adjusted distance
GetPercentageColor(percentage) ==
    LET adjustedDistance == AdjustedDistance(percentage)
    IN  [bg   |-> GetHeatmapColor(percentage),
         text |-> IF LessEq(adjustedDistance, 15) THEN "green-700"
                  ELSE IF LessEq(adjustedDistance, 30) THEN "yellow-700"
                  ELSE IF LessEq(adjustedDistance, 50) THEN "orange-700"
                  ELSE "red-700"]

\* the calories card of the selected day
Card(day, goals) ==
    LET value == day.nutrients.calories
        percentage == GetPercentage(value, goals.calories)
    IN  [date |-> day.date, value |-> value, goal |-> goals.calories,
         percentage |-> percentage, colors |-> GetPercentageColor(percentage)]

\* setSelectedDay(day), by a click on a cell of the row or by the selection
\* on mount: the summary cards of that day are rendered
SelectDay(i) ==
    /\ op = "Dashboard"
    /\ i \in 1..Len(TrimmedData(result))
    /\ cards = <<>>
    /\ cards' = <<Card(TrimmedData(result)[i], profile.goals)>>
    /\ UNCHANGED <<envVars, concurrentVars, loginVars, validateVars, heatmap, foodEntries,
                   clockVars, op, username, days, includeMeals, date, pc, calls, histVars,
                   valueVars, outcome, error, status, received>>

HeatmapNext ==
    \/ RenderHeatmap
    \/ \E i \in 1..2 : SelectDay(i)

SpecHeatmap == HeatmapInit /\ [][HeatmapNext]_vars

-----------------------------------------------------------------------------
(* fetchFoodEntriesForDate against any body of the food-entries response.   *)

\* the most entries in one response
MaxFoodEntries == 2

\* the upstream entries: per-serving calories in hundredths, among them
\* values that rounding before the scaling would change
Servings ==
    { [quantity |-> 150, serving_size |-> 100], [quantity |-> 2, serving_size |-> 1],
      [quantity |-> 1, serving_size |-> 3] }

UpstreamFoodEntries ==
    { [food_name |-> "food", meal_type |-> t, quantity |-> qs.quantity,
       serving_size |-> qs.serving_size, calories |-> c, protein |-> 270, carbs |-> 2805,
       fat |-> 0] :
        t \in {"lunch", "brunch"}, qs \in Servings, c \in {4, 905, 20000} }

FoodBodies == UNION { [1..n -> UpstreamFoodEntries] : n \in 0..MaxFoodEntries }

\* the response of a single-day fetch, with any body
FoodResponseWith(st, body) ==
    /\ pc = "food"
    /\ received' = Append(received, Response("food", st = 200, "", st, 0))
    /\ IF FoodThrows(st)
       THEN /\ Throw(op, "food")
            /\ meals' = meals
       ELSE /\ meals' = IF st = 404 THEN EmptyMeals ELSE GroupEntries(body, EmptyMeals)
            /\ Return(op)
    /\ foodEntries' = IF st = 200 THEN body ELSE <<>>
    /\ UNCHANGED <<envVars, pageVars, validateVars, heatmap, clockVars, op, username, days, includeMeals,
                   date, calls, histVars, result, todayGoals, profile>>

FoodNext ==
    \/ \E u \in Usernames, d \in DateChoices : StartFetchFoodEntriesForDate(u, d)
    \/ \E u \in Usernames, d \in DateChoices : StartMealsLoader(u, d)
    \/ \E body \in FoodBodies : FoodResponseWith(200, body)
    \/ \E st \in FoodStatuses \ {200} : FoodResponseWith(st, <<>>)

FoodInit ==
    /\ now = 240
    /\ tz = ZoneUTC
    /\ apiKeysEnv = ConfiguredEnv
    /\ configEntries = ConfiguredEntries
    /\ API_KEYS_MAP = ConfiguredDirectory
    /\ result = <<>>
    /\ profile = NoProfile
    /\ NoRequest

SpecFood == FoodInit /\ [][FoodNext]_vars

-----------------------------------------------------------------------------
(* Two calls of fetchNutritionHistory in flight at once.  Each call has its *)
(* own locals (agg[p]); the module's API_KEYS_MAP is all they share.  The   *)
(* upstream answers a call with the data of the owner of the key the call   *)
(* carries.  validatePassword and getFirstUsername read the directory       *)
(* meanwhile.                                                              *)

\* SPARKYFITNESS_API_KEYS = "alice:secret:key-alice,bob:hunter2:key-bob"
ConcurrentEntries ==
    << Entry(<<"alice", "secret", "key-alice">>, 0, 0),
       Entry(<<"bob", "hunter2", "key-bob">>, 0, 0) >>

ConcurrentUsernames == {"alice", "bob"}

\* the days the two calls ask for
ConcurrentDays == {1, 2}

\* GET /auth/profiles: the internal id of the owner of the key
UpstreamIdOf(key) ==
    IF key = "key-alice" THEN "user-1" ELSE IF key = "key-bob" THEN "user-2" ELSE ""

\* GET /reports/mini-nutrition-trends?userId=: that user's daily totals
UpstreamTotalsOf(id) ==
    IF id = "user-1" THEN PickDays({2, 3}, 1)
    ELSE IF id = "user-2" THEN PickDays({1, 3, 4}, 1)
    ELSE <<>>

\* GET /food-entries/by-date/{date}: the entries of the owner of the key
UpstreamFoodOf(key, d) ==
    IF key = "key-alice" THEN FoodEntriesOf(d)
    ELSE IF key = "key-bob" THEN FoodEntriesOf(d + 1)
    ELSE <<>>

\* getFirstUsername(): Array.from(API_KEYS_MAP.keys())[0] || null, the keys
\* of a Map being in the order they were first set
RECURSIVE FirstAccepted(_)
FirstAccepted(pieces) ==
    IF pieces = <<>> THEN <<>>
    ELSE LET parts == Split(Trim(Head(pieces)), Colon)
         IN  IF Accepted(parts) THEN <<StringOf(parts[1])>> ELSE FirstAccepted(Tail(pieces))

GetFirstUsername(env) == IF env = <<>> THEN <<>> ELSE FirstAccepted(Split(env, Comma))

ConcurrentInit ==
    /\ now = 263
    /\ tz = ZoneUTC
    /\ configEntries = ConcurrentEntries
    /\ apiKeysEnv = EnvString(ConcurrentEntries)
    /\ API_KEYS_MAP = ParseApiKeys(apiKeysEnv)
    /\ result = <<>>
    /\ profile = NoProfile
    /\ NoRequest

\* the other call is between its start and its end
OtherInFlight(p) == \E q \in Aggregations \ {p} : agg[q].pc \notin {"idle", "done"}

\* call p goes on with the locals a
AggStep(p, a) ==
    /\ agg' = [agg EXCEPT ![p] = [a EXCEPT !.overlapped = @ \/ OtherInFlight(p)]]
    /\ UNCHANGED <<envVars, validateVars, heatmap, foodEntries, clockVars, op, username, days,
                   includeMeals, date, pc, calls, histVars, valueVars, outcome, error, status,
                   received, firstUsername, cards, loginVars>>

AggThrow(a) == [a EXCEPT !.pc = "done", !.outcome = "threw"]
AggReturn(a, res) == [a EXCEPT !.pc = "done", !.outcome = "returned", !.result = res]

\* fetchNutritionHistory(u, n, m) up to its first fetch
AggStart(p, u, n, m) ==
    /\ agg[p].pc = "idle"
    /\ LET a == [agg[p] EXCEPT !.username = u, !.days = n, !.includeMeals = m]
       IN  AggStep(p, IF GetApiKeyThrows(API_KEYS_MAP, u)
                      THEN AggThrow(a)
                      ELSE [a EXCEPT !.pc = "profile",
                                     !.calls = <<ProfilesCall(GetApiKey(API_KEYS_MAP, u))>>])

\* the profile response, the userId, the date range, the daily-totals call
AggProfileResponse(p, ok) ==
    /\ agg[p].pc = "profile"
    /\ LET a == [agg[p] EXCEPT !.profileOk = <<ok>>]
           r == [ok |-> ok, id |-> IF ok THEN UpstreamIdOf(a.calls[1].key) ELSE ""]
           start == StartDateOf(tz, now, a.days)
       IN  AggStep(p, IF ProfileNotOk(r) \/ NoUserId(r)
                      THEN AggThrow(a)
                      ELSE [a EXCEPT !.pc = "totals",
                                     !.startDate = start,
                                     !.calls = Append(@, TrendsCall(GetApiKey(API_KEYS_MAP, a.username),
                                                                    r.id, ToISODate(start),
                                                                    ToISODate(now)))])

\* the daily-totals response, the window's dates, the fan-out or the result
AggTotalsResponse(p, ok) ==
    /\ agg[p].pc = "totals"
    /\ LET a == [agg[p] EXCEPT !.totalsOk = <<ok>>]
           r == [ok |-> ok, body |-> IF ok THEN UpstreamTotalsOf(a.calls[2].userId) ELSE <<>>]
           dates == DateStringsOf(tz, a.startDate, a.days)
       IN  AggStep(p, IF TotalsNotOk(r)
                      THEN AggThrow(a)
                      ELSE IF a.includeMeals
                      THEN [a EXCEPT !.pc = "meals",
                                     !.nutritionData = r.body,
                                     !.dateStrings = dates,
                                     !.foodStatus = [i \in 1..Len(dates) |-> 0],
                                     !.datePromises = DispatchedPromises(API_KEYS_MAP, a.username, dates),
                                     !.calls = @ \o DispatchedCalls(API_KEYS_MAP, a.username, dates)]
                      ELSE AggReturn([a EXCEPT !.nutritionData = r.body, !.dateStrings = dates],
                                     BuildResult(a.days, dates, r.body, FALSE, <<>>)))

\* what a per-day fetch makes of the answer to its call
AggSettledOf(st, call, d) ==
    [date |-> d,
     meals |-> IF FoodThrows(st) \/ st = 404 THEN EmptyMeals
               ELSE GroupEntries(UpstreamFoodOf(call.key, call.from), EmptyMeals)]

\* one per-day fetch of call p settles
AggFoodSettle(p, i, st) ==
    /\ agg[p].pc = "meals"
    /\ i \in DOMAIN agg[p].datePromises
    /\ agg[p].datePromises[i].state = "pending"
    /\ LET a == agg[p]
       IN  AggStep(p, [a EXCEPT !.foodStatus[i] = st,
                                !.datePromises[i] =
                                    Settled(AggSettledOf(st, a.calls[2 + i], a.dateStrings[i]))])

\* await Promise.all(datePromises) resumes in call p
AggJoin(p) ==
    /\ agg[p].pc = "meals"
    /\ \A i \in DOMAIN agg[p].datePromises : agg[p].datePromises[i].state = "settled"
    /\ LET a == agg[p]
       IN  AggStep(p, AggReturn(a, BuildResult(a.days, a.dateStrings, a.nutritionData, TRUE,
                                               PromiseAll(a.datePromises, <<>>))))

\* getFirstUsername(), as the home page's loader calls it
CallGetFirstUsername ==
    /\ pc = "idle"
    /\ op' = "getFirstUsername"
    /\ firstUsername' = GetFirstUsername(apiKeysEnv)
    /\ Return("getFirstUsername")
    /\ UNCHANGED <<envVars, validateVars, heatmap, foodEntries, clockVars, username, days,
                   includeMeals, date, calls, histVars, valueVars, received, agg, cards,
                   loginVars>>

ConcurrentNext ==
    \/ \E p \in Aggregations, u \in ConcurrentUsernames, n \in ConcurrentDays, m \in BOOLEAN :
          AggStart(p, u, n, m)
    \/ \E p \in Aggregations, ok \in BOOLEAN : AggProfileResponse(p, ok)
    \/ \E p \in Aggregations, ok \in BOOLEAN : AggTotalsResponse(p, ok)
    \/ \E p \in Aggregations, i \in ConcurrentDays, st \in FoodStatuses : AggFoodSettle(p, i, st)
    \/ \E p \in Aggregations : AggJoin(p)
    \/ \E c \in {"secret", "hunter2"} : CallValidatePassword("bob", c)
    \/ CallGetFirstUsername

SpecConcurrent == ConcurrentInit /\ [][ConcurrentNext]_vars

-----------------------------------------------------------------------------
(* The dashboard page and its password gate: the loader reads the auth     *)
(* cookie, the page validates a password, stores it and reloads.            *)

\* how often the page is followed reloading itself
MaxReloads == 2

\* the access secrets configured for alice, and the passwords a visitor types
LoginSecrets == {"secret", "pa=ss", "pa;ss"}
LoginCandidates == LoginSecrets \cup {"hunter2"}

\* A string of a cookie is a sequence of tokens: a run of characters other
\* than '=', ';' and space, or one of those three characters.
Equals == "="
Semicolon == ";"

TokensOf(w) ==
    CASE w = ""      -> <<>>
      [] w = "pa=ss" -> <<"pa", Equals, "ss">>
      [] w = "pa;ss" -> <<"pa", Semicolon, "ss">>
      [] OTHER       -> <<w>>

\* the strings followed here, and the string a token sequence spells
LoginWords == LoginCandidates \cup {"", "pa", "ss"}
StringOfTokens(ts) == CHOOSE w \in LoginWords : TokensOf(w) = ts

\* `auth-${username}`
AuthCookieName(u) == IF u = "alice" THEN "auth-alice" ELSE "auth-ghost"

\* encodeURIComponent(password), and url.searchParams.get("password")
EncodeURIComponent(w) ==
    [i \in 1..Len(TokensOf(w)) |->
        CASE TokensOf(w)[i] = Equals    -> "%3D"
          [] TokensOf(w)[i] = Semicolon -> "%3B"
          [] OTHER                      -> TokensOf(w)[i]]

SearchParamsGet(q) ==
    StringOfTokens([i \in 1..Len(q) |->
        CASE q[i] = "%3D" -> Equals
          [] q[i] = "%3B" -> Semicolon
          [] OTHER        -> q[i]])

\* `auth-${username}=${password}; path=/; max-age=2592000; SameSite=Strict`
SetCookieString(u, p) ==
    <<AuthCookieName(u), Equals>> \o TokensOf(p)
        \o <<Semicolon, Space, "path", Equals, "/", Semicolon, Space, "max-age", Equals,
             "2592000", Semicolon, Space, "SameSite", Equals, "Strict">>

\* the tokens after the first sep of a string that has one
AfterFirst(str, sep) ==
    LET first == CHOOSE i \in 1..Len(str) :
                     str[i] = sep /\ \A j \in 1..(i - 1) : str[j] # sep
    IN  SubSeq(str, first + 1, Len(str))

\* document.cookie = string: the browser keeps as the cookie's value what
\* stands between the first '=' and the first ';', trimmed
StoredCookieValue(str) == Trim(AfterFirst(Split(str, Semicolon)[1], Equals))

\* the cookies of other names the browser may send along
OtherCookies == { <<>>, <<"theme", Equals, "dark">> }

\* the Cookie header of a request: <<>> when the browser has no cookie to
\* send, else <<the header>>, the cookies joined by "; "
CookieHeader(jar, u, others) ==
    IF jar = <<>>
    THEN (IF others = <<>> THEN <<>> ELSE <<others>>)
    ELSE << (IF others = <<>> THEN <<>> ELSE others \o <<Semicolon, Space>>)
                \o <<AuthCookieName(u), Equals>> \o jar[1] >>

\* c.trim().startsWith(`auth-${username}=`)
IsAuthCookie(c, u) ==
    /\ Len(Trim(c)) >= 2
    /\ Trim(c)[1] = AuthCookieName(u)
    /\ Trim(c)[2] = Equals

\* cookieHeader?.split(';').find(...)?.split('=')[1]: <<>> for undefined
PasswordCookie(header, u) ==
    IF header = <<>> THEN <<>>
    ELSE LET cs == Split(header[1], Semicolon)
             found == { i \in 1..Len(cs) : IsAuthCookie(cs[i], u) }
         IN  IF found = {} THEN <<>>
             ELSE LET c == cs[CHOOSE i \in found : \A j \in found : i <= j]
                  IN  << StringOfTokens(Split(c, Equals)[2]) >>

\* passwordCookie && validatePassword(username, passwordCookie)
IsAuthenticated(map, u, header) ==
    LET passwordCookie == PasswordCookie(header, u)
    IN  /\ passwordCookie # <<>>
        /\ passwordCookie[1] # ""
        /\ ValidatePassword(map, u, passwordCookie[1])

\* what the loader's Promise.all fetches from the application's own routes
DashboardApiRequests == << "/api/:username/profile", "/api/:username/nutrition/history?days=90" >>

\* the rest of the state while the page is followed
LoginRest ==
    UNCHANGED <<envVars, concurrentVars, cards, heatmap, foodEntries, clockVars,
                op, days, includeMeals, date, pc, calls, histVars, valueVars, outcome, error,
                status, received>>

\* a password the browser kept in localStorage from an earlier visit
EarlierVisit(p) ==
    /\ flow = "none"
    /\ localStorage = <<>>
    /\ localStorage' = <<p>>
    /\ UNCHANGED <<username, cookieJar, loaderData, flow, candidate, reloads>>
    /\ UNCHANGED validateVars
    /\ LoginRest

\* the loader of /:username, for a navigation to the page or for its reload:
\* the cookie, validatePassword, and either the early return or the two
\* fetches (a failure of which throws the 404 response)
DashboardLoader(u, others, af, profileOk, historyOk) ==
    /\ \/ flow = "none"
       \/ flow = "reloading" /\ u = username /\ ~af
    /\ username' = u
    /\ IF ~IsAuthenticated(API_KEYS_MAP, u, CookieHeader(cookieJar, u, others))
       THEN /\ loaderData' = [NoLoaderData EXCEPT !.authFailed = af]
            /\ flow' = "mounting"
       ELSE IF profileOk /\ historyOk
       THEN /\ loaderData' = [authenticated |-> TRUE, profile |-> <<u>>, history |-> <<u>>,
                              authFailed |-> FALSE, apiRequests |-> DashboardApiRequests]
            /\ flow' = "dashboard"
       ELSE /\ loaderData' = [NoLoaderData EXCEPT !.apiRequests = DashboardApiRequests]
            /\ flow' = "error"
    /\ UNCHANGED <<cookieJar, localStorage, candidate, reloads>>
    /\ UNCHANGED validateVars
    /\ LoginRest

\* the effect on mount of the page without authentication: a stored
\* password is submitted at once
MountEffect ==
    /\ flow = "mounting"
    /\ IF localStorage # <<>> /\ localStorage[1] # ""
       THEN /\ candidate' = localStorage
            /\ flow' = "validating"
       ELSE /\ candidate' = candidate
            /\ flow' = "form"
    /\ UNCHANGED <<username, cookieJar, localStorage, loaderData, reloads>>
    /\ UNCHANGED validateVars
    /\ LoginRest

\* handleFormSubmit: the visitor's password goes to handlePasswordSubmit
HandleFormSubmit(p) ==
    /\ flow = "form"
    /\ candidate' = <<p>>
    /\ flow' = "validating"
    /\ UNCHANGED <<username, cookieJar, localStorage, loaderData, reloads>>
    /\ UNCHANGED validateVars
    /\ LoginRest

\* the ?password= the validate route reads out of the request for p
SentPassword(p) == SearchParamsGet(EncodeURIComponent(p))

\* the answer of /api/:username/validate to the password sent
ValidateAnswer(map, u, p) ==
    IF SentPassword(p) = "" THEN FALSE ELSE ValidatePassword(map, u, SentPassword(p))

\* handlePasswordSubmit after its fetch: on valid the cookie, localStorage
\* and the reload; on invalid the stored password is removed; a fetch that
\* fails leaves everything as it is
HandlePasswordSubmit(failed) ==
    /\ flow = "validating"
    /\ IF failed
       THEN /\ flow' = "form"
            /\ valid' = <<>>
            /\ UNCHANGED <<cookieJar, localStorage, reloads>>
       ELSE IF ValidateAnswer(API_KEYS_MAP, username, candidate[1])
       THEN /\ reloads < MaxReloads
            /\ cookieJar' = << StoredCookieValue(SetCookieString(username, candidate[1])) >>
            /\ localStorage' = candidate
            /\ flow' = "reloading"
            /\ reloads' = reloads + 1
            /\ valid' = <<TRUE>>
       ELSE /\ localStorage' = <<>>
            /\ flow' = "form"
            /\ valid' = <<FALSE>>
            /\ UNCHANGED <<cookieJar, reloads>>
    /\ password' = <<SentPassword(candidate[1])>>
    /\ isValid' = IF failed \/ SentPassword(candidate[1]) = "" THEN <<>>
                  ELSE <<ValidatePassword(API_KEYS_MAP, username, SentPassword(candidate[1]))>>
    /\ UNCHANGED <<username, loaderData, candidate>>
    /\ LoginRest

LoginInit ==
    /\ now = 240
    /\ tz = ZoneUTC
    /\ \E s \in LoginSecrets :
          configEntries = << Entry(<<"alice", s, "key-alice">>, 0, 0) >>
    /\ apiKeysEnv = EnvString(configEntries)
    /\ API_KEYS_MAP = ParseApiKeys(apiKeysEnv)
    /\ result = <<>>
    /\ profile = NoProfile
    /\ NoRequest

LoginNext ==
    \/ \E p \in LoginCandidates : EarlierVisit(p)
    \/ \E u \in Usernames, others \in OtherCookies, af, profileOk, historyOk \in BOOLEAN :
          DashboardLoader(u, others, af, profileOk, historyOk)
    \/ MountEffect
    \/ \E p \in LoginCandidates : HandleFormSubmit(p)
    \/ \E failed \in BOOLEAN : HandlePasswordSubmit(failed)

SpecLogin == LoginInit /\ [][LoginNext]_vars

-----------------------------------------------------------------------------
(* The claims.                                                             *)

HistoryOps == {"fetchNutritionHistory", "historyLoader", "fetchProfile"}

\* fetchNutritionHistory has returned its sequence
HistoryReturned == op \in HistoryOps /\ outcome = "returned"

\* an upstream call to the endpoint has been issued
Issued(endpoint) == \E k \in 1..Len(calls) : calls[k].endpoint = endpoint

\* the responses received at a step
ReceivedAt(step) == { k \in 1..Len(received) : received[k].step = step }

\* the status the per-day fetch of window index j was answered with
FoodStatusOf(j) ==
    received[CHOOSE k \in ReceivedAt("hist_food") : received[k].index = j].code

\* the per-day fetch of window index j failed
FoodFetchFailed(j) == FoodStatusOf(j) \notin {200, 404}

\* the window indexes whose date is d
IndexesOf(d) == { j \in 1..Len(dateStrings) : dateStrings[j] = d }

\* C1: for days > 0, whenever identity resolution and the daily totals
\* succeed, fetchNutritionHistory returns exactly `days` records whose dates
\* are consecutive calendar days in strictly ascending order, each once, the
\* last being today (here the day, as the code words it, of the instant the
\* window was computed at).
C1_ConsecutiveDaysEndingToday ==
    (HistoryReturned /\ days > 0) =>
        /\ Len(result) = days
        /\ \A i \in 1..(days - 1) : result[i + 1].date = result[i].date + 1
        /\ result[days].date = ToISODate(endDate)

\* r is x rounded to one decimal place (both in hundredths), halves upwards
IsRoundedToOneDecimal(r, x) == r % 10 = 0 /\ r - x <= 5 /\ x - r < 5

\* the upstream records dated d in the daily-totals response
RecordsDated(d) == { k \in 1..Len(nutritionData) : nutritionData[k].date = d }

\* C2: every date of the window has its record in the returned sequence; its
\* nutrients are all 0 when the upstream totals hold no record of that date,
\* and are that record's values rounded to one decimal place when they hold
\* one.
C2_NutrientsOfOwnDate ==
    HistoryReturned =>
        /\ Len(result) = Len(dateStrings)
        /\ days > 0 => Len(result) = days
        /\ \A i \in 1..Len(dateStrings) :
            LET n == result[i].nutrients
                K == RecordsDated(dateStrings[i])
            IN  /\ result[i].date = dateStrings[i]
                /\ K = {} => n = [calories |-> 0, protein |-> 0, carbs |-> 0, fat |-> 0]
                /\ Cardinality(K) = 1 =>
                      LET u == nutritionData[CHOOSE k \in K : TRUE]
                      IN  /\ IsRoundedToOneDecimal(n.calories, u.calories)
                          /\ IsRoundedToOneDecimal(n.protein, u.protein)
                          /\ IsRoundedToOneDecimal(n.carbs, u.carbs)
                          /\ IsRoundedToOneDecimal(n.fat, u.fat)

\* a window of three days of which one has no upstream record and one has a
\* record whose calories rounding changes
C2_Witness ==
    /\ HistoryReturned
    /\ Len(result) = 3
    /\ \E i, j \in 1..Len(result) :
        /\ RecordsDated(result[i].date) = {}
        /\ Cardinality(RecordsDated(result[j].date)) = 1
        /\ result[j].nutrients.calories > 0
        /\ \A k \in RecordsDated(result[j].date) :
              nutritionData[k].calories # result[j].nutrients.calories

\* fetchNutritionHistory ran with includeMeals and the identity resolution and
\* the daily totals succeeded
MealsRun ==
    /\ op \in HistoryOps
    /\ includeMeals
    /\ pc = "done"
    /\ \E k \in ReceivedAt("hist_totals") : received[k].ok

\* C3: with includeMeals, whatever per-day fetches fail, fetchNutritionHistory
\* returns a sequence of length `days`; a date whose fetch failed has an empty
\* Meal Breakdown and a date whose fetch did not fail has the breakdown that
\* fetch returned.
C3_MealFetchFailureDegradesOneDay ==
    MealsRun =>
        /\ outcome = "returned"
        /\ Len(result) = Len(dateStrings)
        /\ days > 0 => Len(result) = days
        /\ \A i \in 1..Len(result) :
            LET F == IndexesOf(result[i].date)
            IN  /\ (\A j \in F : FoodFetchFailed(j)) => result[i].meals = EmptyMeals
                /\ (\A j \in F : ~FoodFetchFailed(j)) =>
                      \E j \in F : result[i].meals = FoodMeals(FoodStatusOf(j), dateStrings[j])

\* one day's fetch failed, the other day's returned entries
C3_Witness ==
    /\ MealsRun
    /\ Len(result) = 2
    /\ result[1].date # result[2].date
    /\ FoodFetchFailed(1)
    /\ FoodStatusOf(2) = 200
    /\ result[1].meals = EmptyMeals
    /\ result[2].meals # EmptyMeals

\* the last window index whose date is d
LastIndexOf(d) == CHOOSE j \in IndexesOf(d) : \A k \in IndexesOf(d) : k <= j

\* C4: whatever order the per-day fetches settle in, the returned records are
\* in ascending date order, one per window index, and the Meal Breakdown of
\* a record is the one the fetch issued for its date settled with.
C4_SettleOrderDoesNotMatter ==
    (op \in HistoryOps /\ includeMeals /\ outcome = "returned") =>
        /\ Len(result) = Len(dateStrings)
        /\ \A i \in 1..Len(result) :
            /\ result[i].date = dateStrings[i]
            /\ datePromises[i].date = dateStrings[i]
            /\ i < Len(result) => result[i].date <= result[i + 1].date
            /\ result[i].meals = datePromises[LastIndexOf(result[i].date)].meals

\* the later day's fetch settled first and the two breakdowns differ
C4_Witness ==
    /\ op \in HistoryOps /\ includeMeals /\ outcome = "returned"
    /\ settleOrder = <<2, 1>>
    /\ result[1].meals # result[2].meals
    /\ result[1].meals # EmptyMeals
    /\ result[2].meals # EmptyMeals

\* C5: without includeMeals no food-entry fetch is issued and no returned
\* record carries meals; with includeMeals every returned record carries
\* meals; the history route asks without meals.
C5_MealsFieldFollowsIncludeMeals ==
    /\ (op \in {"fetchNutritionHistory", "historyLoader"} /\ ~includeMeals) =>
          /\ ~Issued("/food-entries/by-date")
          /\ outcome = "returned" => \A i \in 1..Len(result) : "meals" \notin DOMAIN result[i]
    /\ (op \in HistoryOps /\ includeMeals /\ outcome = "returned") =>
          \A i \in 1..Len(result) : "meals" \in DOMAIN result[i]
    /\ op = "historyLoader" => ~includeMeals

\* the history route answered 200 with records, none with meals
C5_Witness ==
    /\ op = "historyLoader"
    /\ status = 200
    /\ Len(result) = 2
    /\ ~includeMeals
    /\ "meals" \notin DOMAIN result[1]

\* C6: fetchNutritionHistory with days <= 0 fails; it never returns a
\* sequence, also when the history route passes the days on.
C6_NonPositiveDaysFail ==
    (op \in {"fetchNutritionHistory", "historyLoader"} /\ days <= 0 /\ pc = "done") =>
        /\ outcome = "threw"
        /\ op = "historyLoader" => status # 200

\* the record's date is one of the window's dates
InWindow(r) == \E i \in 1..Len(dateStrings) : dateStrings[i] = r.date

\* C7: upstream daily totals dated outside the window do not influence the
\* result: it is the sequence built from the response without them.
C7_OutOfWindowTotalsIgnored ==
    HistoryReturned =>
        result = BuildResult(days, dateStrings, SelectSeq(nutritionData, InWindow),
                             includeMeals, PromiseAll(datePromises, settleOrder))

\* the response held a record outside the window and none inside
C7_Witness ==
    /\ HistoryReturned
    /\ Len(result) = 2
    /\ nutritionData # <<>>
    /\ \A k \in 1..Len(nutritionData) : ~InWindow(nutritionData[k])

\* the identity resolution of fetchNutritionHistory failed
IdentityFailed ==
    \E k \in ReceivedAt("hist_profile") : ~received[k].ok \/ received[k].id = ""

\* the daily-totals call failed
TotalsFailed == \E k \in ReceivedAt("hist_totals") : ~received[k].ok

\* C8: a failed identity resolution (a non-success profile response, or one
\* without an id) or a failed daily-totals call makes fetchNutritionHistory
\* throw with no sequence returned; after the former no daily-totals call and
\* no food-entry fetch is issued, after the latter no food-entry fetch.
C8_IdentityOrTotalsFailureAborts ==
    /\ IdentityFailed =>
          /\ pc = "done" /\ outcome = "threw" /\ result = <<>>
          /\ ~Issued("/reports/mini-nutrition-trends")
          /\ ~Issued("/food-entries/by-date")
    /\ TotalsFailed =>
          /\ pc = "done" /\ outcome = "threw" /\ result = <<>>
          /\ ~Issued("/food-entries/by-date")

\* a successful profile response without an id was received
C8_Witness ==
    /\ op = "fetchNutritionHistory"
    /\ includeMeals
    /\ \E k \in ReceivedAt("hist_profile") : received[k].ok /\ received[k].id = ""
    /\ outcome = "threw"

\* C9: for an identity that is not in the Credential Directory each of
\* fetchGoals, fetchProfile, fetchNutritionHistory and fetchFoodEntriesForDate
\* throws, and no upstream call is issued.
C9_UnknownIdentityFailsBeforeAnyCall ==
    (op \in Operations /\ username \notin DOMAIN API_KEYS_MAP) =>
        /\ pc = "done"
        /\ outcome = "threw"
        /\ calls = <<>>

\* fetchProfile was called for an identity that is not configured
C9_Witness ==
    /\ op = "fetchProfile"
    /\ username = "ghost"
    /\ outcome = "threw"
    /\ error = "getApiKey"

\* C10: fetchFoodEntriesForDate returns the empty Meal Breakdown for a 404
\* and throws for every other non-success status; the meals route answers 200
\* with empty meals for the former and 500 for the latter.
C10_NotFoundIsEmptyOtherFailuresThrow ==
    \A k \in ReceivedAt("food") :
        /\ received[k].code = 404 =>
              /\ outcome = "returned"
              /\ meals = EmptyMeals
              /\ op = "mealsLoader" => status = 200
        /\ received[k].code \notin {200, 404} =>
              /\ outcome = "threw"
              /\ op = "mealsLoader" => status = 500

\* the meals route answered a 404 of the upstream with 200
C10_Witness ==
    /\ op = "mealsLoader"
    /\ \E k \in ReceivedAt("food") : received[k].code = 404
    /\ status = 200
    /\ meals = EmptyMeals

\* C11: during one fetchProfile call no food-entry fetch (GET
\* /food-entries/by-date/{date}) is ever issued: its history is built with
\* meals excluded.
C11_ProfileIssuesNoFoodFetch ==
    op = "fetchProfile" => ~Issued("/food-entries/by-date")

\* calculateStreakAndTotalDays has returned
StreakReturned == op = "calculateStreakAndTotalDays" /\ pc = "done"

\* the records of a sequence with calories > 0, counted one by one
RECURSIVE CountTracked(_)
CountTracked(history) ==
    IF history = <<>> THEN 0
    ELSE (IF Head(history).nutrients.calories > 0 THEN 1 ELSE 0) + CountTracked(Tail(history))

\* C12: for every day sequence calculateStreakAndTotalDays returns totalDays
\* equal to the number of records with calories > 0, wherever they are in the
\* sequence, contiguous or not, and whatever today's date is.
C12_TotalDaysCountsTrackedRecords ==
    StreakReturned => profile.totalDays = CountTracked(result)

\* tracked records that are not contiguous and do not reach today, so that
\* the total differs from the streak
C12_Witness ==
    /\ StreakReturned
    /\ Len(result) = 3
    /\ result[1].nutrients.calories > 0
    /\ result[2].nutrients.calories = 0
    /\ result[3].nutrients.calories > 0
    /\ result[1].date = 8 /\ result[2].date = 9 /\ result[3].date = 11
    /\ profile.totalDays = 2
    /\ profile.currentStreak = 0

\* today as calculateStreakAndTotalDays words it
TodayOf(t) == ToISODate(t)

\* the sequence has a record of day d with calories > 0
Tracked(history, d) ==
    \E i \in 1..Len(history) : history[i].date = d /\ history[i].nutrients.calories > 0

\* the sequence has at most one record per date
OneRecordPerDate(history) ==
    \A i, j \in 1..Len(history) : history[i].date = history[j].date => i = j

\* the length of the longest run of consecutive tracked days ending at day d
RunEndingAt(history, d) ==
    CHOOSE r \in 0..Len(history) :
        /\ \A k \in 0..(r - 1) : Tracked(history, d - k)
        /\ ~Tracked(history, d - r)

\* C13: for every day sequence with one record per date, currentStreak is the
\* length of the longest run of consecutive calendar days ending at today
\* (inclusive) of which every day has a record with calories > 0; it is 0 when
\* today's record is missing or has calories 0.
C13_StreakIsRunEndingToday ==
    (StreakReturned /\ OneRecordPerDate(result)) =>
        /\ profile.currentStreak = RunEndingAt(result, TodayOf(now))
        /\ ~Tracked(result, TodayOf(now)) => profile.currentStreak = 0

\* an entry with two or three parts, none of them missing
WellFormed(e) == Len(e.parts) \in {2, 3} /\ \A i \in 1..Len(e.parts) : e.parts[i] # ""

\* the well-formed entries of the configuration, by position
WellFormedAt == { i \in 1..Len(configEntries) : WellFormed(configEntries[i]) }

\* the last well-formed entry of an identity
LastEntryOf(u) ==
    configEntries[CHOOSE i \in WellFormedAt :
                    /\ configEntries[i].parts[1] = u
                    /\ \A j \in WellFormedAt : configEntries[j].parts[1] = u => j <= i]

\* C18: the Credential Directory holds exactly the identities of the
\* well-formed entries of the configuration string, identity:apiKey and
\* identity:accessSecret:apiKey alike, each with its API key (the entry's last
\* part); spaces around an entry are ignored and an entry with a missing part
\* is skipped without the other entries being lost.
C18_DirectoryOfWellFormedEntries ==
    /\ DOMAIN API_KEYS_MAP = { configEntries[i].parts[1] : i \in WellFormedAt }
    /\ \A u \in DOMAIN API_KEYS_MAP :
          LET e == LastEntryOf(u) IN API_KEYS_MAP[u].apiKey = e.parts[Len(e.parts)]

\* C19: a history or single-day-meals request for an identity that is not
\* configured is answered with a 400-class status, not a 500-class one.
C19_UnknownIdentityAnswered400 ==
    (op \in Loaders /\ username \notin DOMAIN API_KEYS_MAP /\ pc = "done") =>
        (status >= 400 /\ status <= 499)

\* C20: validatePassword returns true exactly when the identity is in the
\* Credential Directory and the candidate equals its access secret; for an
\* unknown identity it returns false and does not throw; without a password
\* parameter the validate route answers {valid: false} with status 400 and
\* validatePassword is not called; with one it answers what validatePassword
\* returned.
C20_ValidatePasswordExact ==
    /\ op = "validatePassword" =>
          /\ outcome = "returned"
          /\ isValid \in {<<TRUE>>, <<FALSE>>}
          /\ isValid = <<TRUE>> =>
                (username \in DOMAIN API_KEYS_MAP /\ <<API_KEYS_MAP[username].password>> = password)
          /\ isValid = <<FALSE>> =>
                (username \notin DOMAIN API_KEYS_MAP \/ <<API_KEYS_MAP[username].password>> # password)
    /\ op = "validateLoader" =>
          /\ outcome = "returned"
          /\ (password = <<>>) => (valid = <<FALSE>> /\ status = 400 /\ isValid = <<>>)
          /\ (password # <<>> /\ password # <<"">>) =>
                /\ status = 200
                /\ valid = isValid
                /\ valid = <<TRUE>> <=>
                      (username \in DOMAIN API_KEYS_MAP /\ <<API_KEYS_MAP[username].password>> = password)

\* a wrong candidate for a configured identity was refused, the directory
\* holding a later entry of the identity with another secret
C20_Witness ==
    /\ op = "validateLoader"
    /\ username = "alice"
    /\ password = <<"secret">>
    /\ Len(configEntries) = 2
    /\ API_KEYS_MAP["alice"].password = "hunter2"
    /\ valid = <<FALSE>>
    /\ status = 200

\* the cells the dashboard rendered
Cells == { heatmap[i] : i \in 1..Len(heatmap) }

\* the zone of a cell under the names of the specification
ZoneOf(cell) ==
    CASE cell.backgroundColor.zone = "NoData" -> "NoData"
      [] cell.backgroundColor.zone = "Green"  -> "Good"
      [] cell.backgroundColor.zone = "Yellow" -> "Mid"
      [] cell.backgroundColor.zone = "Orange" -> "Low"
      [] cell.backgroundColor.zone = "Red"    -> "High"

\* the zone the thresholds give a percentage of value / goal * 100, goal > 0:
\* below 100 by 100 - percentage against 15, 30 and 50, from 100 on by the
\* boundaries 130, 160 and 200
ZoneByThresholds(value, goal) ==
    IF value < goal
    THEN IF 100 * value >= 85 * goal THEN "Good"
         ELSE IF 100 * value >= 70 * goal THEN "Mid"
         ELSE IF 100 * value >= 50 * goal THEN "Low"
         ELSE "High"
    ELSE IF 100 * value <= 130 * goal THEN "Good"
         ELSE IF 100 * value <= 160 * goal THEN "Mid"
         ELSE IF 100 * value <= 200 * goal THEN "Low"
         ELSE "High"

NoDataColor == [zone |-> "NoData", numeric |-> TRUE]

\* C15: getHeatmapColor(0) is the NoData colour, and a cell whose nutrient
\* value is 0 is rendered NoData for every goal, goal 0 included.
C15_ZeroValueIsNoData ==
    /\ GetHeatmapColor(Fraction(0, 1)) = NoDataColor
    /\ \A cell \in Cells : cell.value = 0 => cell.backgroundColor = NoDataColor

\* the severity of a zone: NoData and Good lowest, then Mid, Low, High
Severity(zone) ==
    CASE zone \in {"NoData", "Good"} -> 0
      [] zone = "Mid" -> 1
      [] zone = "Low" -> 2
      [] zone = "High" -> 3

\* two cells of one goal > 0 on the same side of 100 percent, the second at
\* least as far from 100 as the first
FartherOnSameSide(near, far) ==
    /\ near.goal > 0
    /\ far.goal = near.goal
    /\ \/ far.value <= near.value /\ near.value <= near.goal
       \/ far.value >= near.value /\ near.value >= near.goal

\* C16 as stated: the zone of 100 percent is Good, and of two percentages on
\* the same side of 100 the farther never has a lower severity than the
\* nearer.
C16_MonotonicInDistance ==
    \A near, far \in Cells :
        /\ (near.goal > 0 /\ near.value = near.goal) => ZoneOf(near) = "Good"
        /\ FartherOnSameSide(near, far) => Severity(ZoneOf(far)) >= Severity(ZoneOf(near))

\* C16 amended: the same of any two percentages other than 0.
C16_MonotonicInDistanceButZero ==
    \A near, far \in Cells :
        /\ (near.goal > 0 /\ near.value = near.goal) => ZoneOf(near) = "Good"
        /\ (FartherOnSameSide(near, far) /\ near.value # 0 /\ far.value # 0) =>
              Severity(ZoneOf(far)) >= Severity(ZoneOf(near))

\* a row with two percentages above 100 in different zones, the farther the
\* more severe
C16_Witness ==
    /\ Len(heatmap) = 2
    /\ heatmap[1].goal = 100000
    /\ heatmap[1].value = 160010 /\ ZoneOf(heatmap[1]) = "Low"
    /\ heatmap[2].value = 250000 /\ ZoneOf(heatmap[2]) = "High"

\* r is the quotient n / s, s > 0, rounded to one decimal place (all in
\* hundredths), halves upwards
IsQuotientRoundedToOneDecimal(r, n, s) ==
    /\ r % 10 = 0
    /\ r * s - n <= 5 * s
    /\ n - r * s < 5 * s

\* the place in its bucket of the item made of entry k of the response
PlaceInBucket(k) ==
    Cardinality({ j \in 1..k : foodEntries[j].meal_type = foodEntries[k].meal_type })

\* the Food Item made of entry k
ItemOf(k) == meals[foodEntries[k].meal_type][PlaceInBucket(k)]

\* a single-day fetch returned the breakdown of a successful response
FoodReturned ==
    /\ op \in {"fetchFoodEntriesForDate", "mealsLoader"}
    /\ outcome = "returned"
    /\ \E k \in ReceivedAt("food") : received[k].code = 200

\* C17: the calories, protein, carbs and fat of every Food Item are the
\* upstream per-serving value times quantity / serving_size, rounded to one
\* decimal place after the scaling and not before.
C17_ScaledThenRounded ==
    FoodReturned =>
        \A k \in 1..Len(foodEntries) :
            LET e == foodEntries[k]
                item == ItemOf(k)
            IN  /\ e.serving_size > 0
                /\ item.quantity = e.quantity
                /\ IsQuotientRoundedToOneDecimal(item.calories, e.calories * e.quantity, e.serving_size)
                /\ IsQuotientRoundedToOneDecimal(item.protein, e.protein * e.quantity, e.serving_size)
                /\ IsQuotientRoundedToOneDecimal(item.carbs, e.carbs * e.quantity, e.serving_size)
                /\ IsQuotientRoundedToOneDecimal(item.fat, e.fat * e.quantity, e.serving_size)

\* serving_size 100, quantity 150, calories 200 gave 300.0, and beside it an
\* entry of 9.05 calories taken twice gave 18.1 (18.2 had it been rounded
\* first)
C17_Witness ==
    /\ FoodReturned
    /\ Len(foodEntries) = 2
    /\ foodEntries[1].serving_size = 100 /\ foodEntries[1].quantity = 150
    /\ foodEntries[1].calories = 20000
    /\ ItemOf(1).calories = 30000
    /\ foodEntries[2].serving_size = 1 /\ foodEntries[2].quantity = 2
    /\ foodEntries[2].calories = 905
    /\ ItemOf(2).calories = 1810

\* the calendar day of an instant in the server's time zone
LocalDate(z, t) == LocalTime(z, t) \div 24

\* the calls to the goals endpoint
GoalsCalls == { k \in 1..Len(calls) : calls[k].endpoint = "/goals/by-date" }

\* C21: when fetchGoals is called without a date, the date it asks the goals
\* of is today's calendar day in the server's local time zone, at every
\* instant of the day and for every offset.
C21_GoalsDefaultIsLocalToday ==
    (op = "fetchGoals" /\ date = <<>>) =>
        \A k \in GoalsCalls : calls[k].from = LocalDate(tz, now)

\* the food-entry fetches among the calls, in the order they were issued
FoodCallsOf(cs) == SelectSeq(cs, LAMBDA c : c.endpoint = "/food-entries/by-date")

\* the responses to the per-day fetch of window index j
FoodResponsesOf(j) == { k \in ReceivedAt("hist_food") : received[k].index = j }

\* fetchNutritionHistory with includeMeals has passed its fan-out
MealsDispatched ==
    /\ op \in HistoryOps
    /\ includeMeals
    /\ pc \in {"hist_meals", "done"}
    /\ \E k \in ReceivedAt("hist_totals") : received[k].ok

\* one fetch per place of the window, and days of them
OneFetchPerWindowDate ==
    MealsDispatched =>
        /\ Len(dateStrings) = (IF days > 0 THEN days ELSE 0)
        /\ FoodCallsOf(calls) =
               [i \in 1..Len(dateStrings) |->
                    FoodCall(GetApiKey(API_KEYS_MAP, username), dateStrings[i])]
        /\ \A i \in 1..Len(dateStrings) : Cardinality(FoodResponsesOf(i)) <= 1
        /\ pc = "done" =>
               \A i \in 1..Len(dateStrings) : Cardinality(FoodResponsesOf(i)) = 1

\* the step that issues a per-day fetch issues all of them, before any of
\* them is answered, and none is issued later
AllDispatchedBeforeAnySettles ==
    (op' \in HistoryOps /\ FoodCallsOf(calls') # FoodCallsOf(calls)) =>
        /\ FoodCallsOf(calls) = <<>>
        /\ Len(FoodCallsOf(calls')) = Len(dateStrings')
        /\ { k \in 1..Len(received') : received'[k].step = "hist_food" } = {}

\* the step that leaves the wait returns the sequence, and every per-day
\* fetch has settled by then
ReturnsAfterAllSettled ==
    (pc = "hist_meals" /\ pc' # "hist_meals") =>
        /\ \A i \in DOMAIN datePromises : datePromises[i].state = "settled"
        /\ Cardinality(ReceivedAt("hist_food")) = Len(dateStrings)
        /\ outcome' = "returned"
        /\ Len(result') = Len(dateStrings)

\* C22: with includeMeals, fetchNutritionHistory dispatches exactly one
\* food-entry fetch for each date of the window (days fetches, none repeated),
\* dispatches all of them before any of them completes, and builds and returns
\* the sequence only after every one of them has settled, by success or by
\* degradation to empty meals.
C22_FanOutThenJoin ==
    /\ []OneFetchPerWindowDate
    /\ [][AllDispatchedBeforeAnySettles /\ ReturnsAfterAllSettled]_vars

C22_Witness ==
    /\ MealsDispatched
    /\ pc = "done"
    /\ Len(FoodCallsOf(calls)) = 2
    /\ settleOrder = <<2, 1>>
    /\ FoodFetchFailed(2)
    /\ FoodStatusOf(1) = 200

\* the endpoints of the calls issued so far, in order
EndpointsOf(cs) == [k \in 1..Len(cs) |-> cs[k].endpoint]

\* s is a prefix of t
IsPrefix(s, t) == Len(s) <= Len(t) /\ \A k \in 1..Len(s) : s[k] = t[k]

\* the calls of a fetchProfile that runs to its end: the profile call, the
\* goals call, then the history build (its identity call, the daily totals,
\* the per-day fetches)
ProfileCallOrder ==
    << "/auth/profiles", "/goals/by-date", "/auth/profiles",
       "/reports/mini-nutrition-trends" >>
    \o [i \in 1..Len(dateStrings) |-> "/food-entries/by-date"]

\* the k-th response was a success of the step
SucceededAt(k, step) ==
    /\ Len(received) >= k
    /\ received[k].step = step
    /\ received[k].ok
    /\ step = "hist_profile" => received[k].id # ""

\* a step of fetchProfile has failed: its profile call, its goals call, or
\* the history build (identity resolution or daily totals)
ProfileStepFailed ==
    \/ \E k \in ReceivedAt("prof_profile") \cup ReceivedAt("goals") : ~received[k].ok
    \/ IdentityFailed
    \/ TotalsFailed

\* C23: fetchProfile issues its upstream steps in the order profile call,
\* goals call, history build, each started only after the previous one
\* succeeded; when one of the three fails, fetchProfile throws, no later call
\* is issued and no Profile, partial or not, is returned.
C23_ProfileStepsInOrder ==
    op = "fetchProfile" =>
        /\ IsPrefix(EndpointsOf(calls), ProfileCallOrder)
        /\ Len(calls) >= 2 => SucceededAt(1, "prof_profile")
        /\ Len(calls) >= 3 => SucceededAt(2, "goals")
        /\ Len(calls) >= 4 => SucceededAt(3, "hist_profile")
        /\ Len(calls) >= 5 => SucceededAt(4, "hist_totals")
        /\ ProfileStepFailed =>
              /\ pc = "done" /\ outcome = "threw"
              /\ profile = NoProfile
              /\ ~received[Len(received)].ok \/ received[Len(received)].id = ""
              /\ Len(calls) = Len(received)
        /\ outcome = "returned" =>
              /\ ~ProfileStepFailed
              /\ \A k \in 1..4 :
                    SucceededAt(k, <<"prof_profile", "goals", "hist_profile", "hist_totals">>[k])
        /\ outcome # "returned" => profile = NoProfile

C23_Witness ==
    /\ op = "fetchProfile"
    /\ outcome = "threw"
    /\ error = "totals"
    /\ EndpointsOf(calls) = SubSeq(ProfileCallOrder, 1, 4)
    /\ todayGoals # NoGoals
    /\ profile = NoProfile

\* the dates that have a record with calories > 0
TrackedDates(history) ==
    { history[i].date : i \in { j \in 1..Len(history) : history[j].nutrients.calories > 0 } }

\* C24: for every day sequence, the empty one and one whose every day has
\* calories > 0 included, the walk back ends with 0 <= currentStreak <= the
\* length of the sequence, and it counts no day that the sequence does not hold.
C24_StreakWithinLength ==
    StreakReturned =>
        /\ 0 <= profile.currentStreak
        /\ profile.currentStreak <= Len(result)
        /\ profile.currentStreak <= Cardinality(TrackedDates(result))

\* the meal types of the entries of the response
MealTypesOf(entries) == { entries[k].meal_type : k \in 1..Len(entries) }

\* the entries of the response with meal type t, by position
EntriesOfType(t) == { k \in 1..Len(foodEntries) : foodEntries[k].meal_type = t }

\* C25: in the Meal Breakdown of fetchFoodEntriesForDate every upstream entry
\* appears exactly once, in the bucket named by its meal_type (a bucket is
\* created for a meal type outside breakfast, lunch, dinner and snack), the
\* entries of a bucket keep their upstream order, and the four default buckets
\* are there also when empty.
C25_EveryEntryOnceInItsBucket ==
    (op \in {"fetchFoodEntriesForDate", "mealsLoader"} /\ outcome = "returned") =>
        /\ DOMAIN meals = DOMAIN EmptyMeals \cup MealTypesOf(foodEntries)
        /\ \A t \in DOMAIN meals : Len(meals[t]) = Cardinality(EntriesOfType(t))
        /\ \A k \in 1..Len(foodEntries) : ItemOf(k) = FoodItemOf(foodEntries[k])

\* two unlike entries of a meal type outside the four, in upstream order in a
\* bucket of their own, and the default buckets empty beside it
C25_Witness ==
    /\ FoodReturned
    /\ Len(foodEntries) = 2
    /\ foodEntries[1].meal_type = "brunch" /\ foodEntries[2].meal_type = "brunch"
    /\ foodEntries[1] # foodEntries[2]
    /\ Len(meals["brunch"]) = 2
    /\ meals["brunch"][1] # meals["brunch"][2]
    /\ meals["lunch"] = <<>> /\ meals["breakfast"] = <<>>

\* the API key the configuration gives identity u
OwnApiKey(u) ==
    LET own == { i \in 1..Len(configEntries) : configEntries[i].parts[1] = u }
    IN  configEntries[CHOOSE i \in own : \A j \in own : j <= i].parts[3]

\* what a call of fetchNutritionHistory running alone returns for locals a,
\* given the answers its own calls got: the upstream's data of a's identity
AloneResult(a) ==
    LET key == OwnApiKey(a.username)
        dates == DateStringsOf(tz, StartDateOf(tz, now, a.days), a.days)
        settled == [i \in 1..Len(dates) |->
                       [date |-> dates[i],
                        meals |-> IF a.foodStatus[i] = 200
                                  THEN GroupEntries(UpstreamFoodOf(key, dates[i]), EmptyMeals)
                                  ELSE EmptyMeals]]
    IN  BuildResult(a.days, dates, UpstreamTotalsOf(UpstreamIdOf(key)), a.includeMeals,
                    IF a.includeMeals THEN settled ELSE <<>>)

\* running alone it throws exactly when its profile or its totals call fails
AloneThrows(a) == a.profileOk = <<FALSE>> \/ a.totalsOk = <<FALSE>>

\* C26: no operation a request reaches changes the Credential Directory; and
\* of two aggregations running at once, for the same or for different
\* identities, each gets under every interleaving of the upstream responses
\* the result it would get alone, every upstream call carrying the API key of
\* its own identity.
C26_ConcurrentAggregationsIsolated ==
    /\ API_KEYS_MAP = ParseApiKeys(apiKeysEnv)
    /\ \A p \in Aggregations :
          LET a == agg[p]
          IN  /\ \A k \in 1..Len(a.calls) : a.calls[k].key = OwnApiKey(a.username)
              /\ a.pc = "done" =>
                    /\ a.outcome = (IF AloneThrows(a) THEN "threw" ELSE "returned")
                    /\ a.outcome = "returned" => a.result = AloneResult(a)

\* both calls took steps while the other was in flight, for two identities,
\* and both returned days with meals; the directory was read meanwhile
C26_Witness ==
    /\ \A p \in Aggregations :
          /\ agg[p].pc = "done" /\ agg[p].outcome = "returned"
          /\ agg[p].overlapped
          /\ agg[p].includeMeals /\ agg[p].days = 2
          /\ \E i \in 1..2 : agg[p].foodStatus[i] = 200
    /\ agg[1].username # agg[2].username
    /\ agg[1].result # agg[2].result
    /\ op = "validatePassword" /\ isValid = <<TRUE>>

\* the severity tier of a background and of a text colour
TierOfBackground(color) ==
    CASE color.zone = "NoData" -> "NoData"
      [] color.zone = "Green"  -> "Good"
      [] color.zone = "Yellow" -> "Mid"
      [] color.zone = "Orange" -> "Low"
      [] color.zone = "Red"    -> "High"

TierOfText(text) ==
    CASE text = "green-700"  -> "Good"
      [] text = "yellow-700" -> "Mid"
      [] text = "orange-700" -> "Low"
      [] text = "red-700"    -> "High"

\* C27: for every percentage getPercentageColor returns as background exactly
\* getHeatmapColor(percentage), and a text colour of the tier of that
\* background: green with Good, yellow with Mid, orange with Low, red with
\* High, and no severity text colour on a NoData background.
C27_TextTierIsBackgroundTier ==
    \A i \in 1..Len(cards) :
        /\ cards[i].colors.bg = GetHeatmapColor(cards[i].percentage)
        /\ TierOfText(cards[i].colors.text) = TierOfBackground(cards[i].colors.bg)

\* fetchProfile has returned a Profile made from a history of at least a day
ProfileReturned == op = "fetchProfile" /\ outcome = "returned" /\ Len(result) > 0

\* C28: within one fetchProfile call the day from which the backward walk of
\* calculateStreakAndTotalDays starts is the last date of the sequence that
\* fetchNutritionHistory built for it, also when the clock passes a day
\* boundary between the two readings of the time; so a run of tracked days
\* ending at the sequence's last date gives a streak of that run's length.
C28_WalkStartsAtLastDate ==
    ProfileReturned =>
        /\ TodayOf(now) = result[Len(result)].date
        /\ profile.currentStreak = RunEndingAt(result, result[Len(result)].date)

\* the request presents the identity's valid access secret in its cookie
ValidSecretPresented ==
    IsAuthenticated(API_KEYS_MAP, username, CookieHeader(cookieJar, username, <<>>))

\* the dashboard page shown is the password form
GateClosed == flow \in {"mounting", "form", "validating"}

\* C29: profile, history and meal data of an identity are returned only to a
\* request that presents that identity's valid access secret: without one, the
\* response of the dashboard route and of the history and meals routes does
\* not depend on the identity's upstream data, and no upstream call is made.
C29_DataOnlyWithValidSecret ==
    /\ (op \in Loaders /\ ~ValidSecretPresented) =>
          /\ calls = <<>>
          /\ result = <<>>
          /\ meals = EmptyMeals
    /\ GateClosed =>
          /\ loaderData.profile = <<>>
          /\ loaderData.history = <<>>
          /\ loaderData.apiRequests = <<>>

\* the loader of the page shown let the request through its gate
GatePassed == loaderData.apiRequests = DashboardApiRequests

\* C30: for every configured access secret, once the page has stored in the
\* auth cookie a password that the validate route accepted, the page load that
\* follows is authenticated (the loader reads the same secret back and
\* validatePassword accepts it), so the cycle validate, store, reload is not
\* repeated; a password the route rejects is removed from localStorage, so it
\* is not submitted again on its own.
C30_LoginReachesDashboard ==
    /\ (reloads > 0 /\ flow # "reloading") => GatePassed
    /\ reloads <= 1
    /\ (flow = "form" /\ valid = <<FALSE>>) => localStorage = <<>>

====
